---- MODULE Spec2Model ----
(***************************************************************************)
(* Budsjett: the file-backed store (server/db.js) and the HTTP handlers    *)
(* (server/index.js) that mutate it, with the dashboard aggregation as     *)
(* operators over the store state.                                         *)
(***************************************************************************)
EXTENDS Integers, Sequences, FiniteSets, TLC

VARIABLES
  fixedExpenses,  \* state.fixedExpenses: sequence of fixed expense records
  categories,     \* state.categories: sequence of [id, name]
  pages,          \* state.pages: sequence of [id, name]
  transactions,   \* state.transactions: sequence of transaction records
  settings,       \* state.settings
  counters,       \* state.counters; primitive when it is no object
  clock,          \* the wall clock read by new Date()
  lastOp,         \* the request handled last, with what its handler computed
  nrm,            \* input and result of a stand-alone normalizeFixedExpense call
  activeLockTokens, \* the Map of the server: token -> days left before it expires
  issuedTokens    \* how many tokens nanoid(32) has produced

vars == <<fixedExpenses, categories, pages, transactions, settings, counters, clock,
          lastOp, nrm, activeLockTokens, issuedTokens>>

-----------------------------------------------------------------------------
(* Bounds *)

MaxExpenses == 1   \* fixed expenses held by the store
MaxHist == 2       \* entries of one priceHistory
MaxClock == 2      \* distinct instants of the wall clock
MaxId == 2         \* highest id handed out by nextId
MaxCategories == 5 \* categories held by the store
MaxPages == 1      \* pages held by the store
MaxTransactions == 2 \* transactions held by the store

-----------------------------------------------------------------------------
(* JavaScript values as they arrive in a JSON body *)

JsNum(n) == [k |-> "num", n |-> n]
\* the decimal string of n, e.g. "150"
JsStr(n) == [k |-> "str", n |-> n]
JsNull == [k |-> "null", n |-> 0]
JsUndef == [k |-> "undef", n |-> 0]
\* a string that is not a number, e.g. "abc"
JsBad == [k |-> "bad", n |-> 0]

\* Number(v): NaN for undefined and for non-numeric strings, 0 for null
ToNumber(v) ==
  [nan |-> v.k \in {"undef", "bad"},
   n |-> IF v.k \in {"num", "str"} THEN v.n ELSE 0]

\* Number(v) || 0
NumberOrZero(v) == IF ToNumber(v).nan THEN 0 ELSE ToNumber(v).n

\* v ?? w
Coalesce(v, w) == IF v.k \in {"undef", "null"} THEN w ELSE v

(* Timestamps: an ISO date, a non-empty string that is no date, or a missing
   (undefined / empty) value *)
DateTs(t) == [k |-> "date", t |-> t]
BadTs == [k |-> "bad", t |-> 0]
NoTs == [k |-> "none", t |-> 0]

\* a || b on timestamps: the first truthy one
OrTs(a, b) == IF a.k # "none" THEN a ELSE b

\* new Date().toISOString()
Now == DateTs(clock)

-----------------------------------------------------------------------------
(* Sequence helpers *)

Last(s) == s[Len(s)]

RECURSIVE SumSeq(_)
SumSeq(s) == IF s = <<>> THEN 0 ELSE Head(s) + SumSeq(Tail(s))

Includes(s, x) == \E i \in 1..Len(s) : s[i] = x

\* Array.from(new Set(s)): first occurrences, in order
RECURSIVE Unique(_)
Unique(s) ==
  IF s = <<>> THEN <<>>
  ELSE LET r == Unique(SubSeq(s, 1, Len(s) - 1))
       IN IF Includes(r, Last(s)) THEN r ELSE Append(r, Last(s))

\* String.prototype.trim, on the strings the requests of the model carry
Trim(s) ==
  CASE s = " a" -> "a"
    [] s = "b " -> "b"
    [] s = " " -> ""
    [] OTHER -> s

\* owners.map(trim).filter(Boolean)
NonBlank(s) == SelectSeq([i \in 1..Len(s) |-> Trim(s[i])], LAMBDA o : o # "")

\* findIndex: first index satisfying the test, 0 when none (-1 in the code)
FindIndexById(s, id) ==
  IF \E i \in 1..Len(s) : s[i].id = id
  THEN CHOOSE i \in 1..Len(s) : s[i].id = id /\ \A j \in 1..(i - 1) : s[j].id # id
  ELSE 0

-----------------------------------------------------------------------------
(* Fixed expenses: server/db.js *)

Entry(a, ts) == [amount |-> a, changedAt |-> ts]

\* nextId(key)
nextId(key) == counters[key] + 1

\* addFixedExpense(payload), for the payload POST /api/faste-utgifter builds
\* (no id, no priceHistory, no createdAt): the new record
addFixedExpense(payload, now) ==
  [id |-> nextId("fixedExpenses"),
   amountPerMonth |-> NumberOrZero(payload.amountPerMonth),
   category |-> IF payload.category = "" THEN "Annet" ELSE payload.category,
   owners |-> NonBlank(payload.owners),
   level |-> IF payload.level = "" THEN "Må-ha" ELSE payload.level,
   bindingEndDate |-> payload.bindingEndDate,
   priceHistory |-> <<Entry(NumberOrZero(payload.amountPerMonth), now)>>]

\* a bug: Number(payload.amountPerMonth) || 0 also when the patch has no amount
nextAmountOfZero(current, payload) == NumberOrZero(payload.amountPerMonth)

\* updateFixedExpense: nextAmount
nextAmountOf(current, payload) ==
  IF payload.amountPerMonth.k # "undef"
  THEN NumberOrZero(payload.amountPerMonth)
  ELSE current.amountPerMonth

\* a bug: the history is only rewritten on a reset, never appended to
nextPriceHistoryStale(current, payload, now) ==
  IF payload.resetPriceHistory \/ current.priceHistory = <<>>
  THEN <<Entry(nextAmountOf(current, payload), now)>>
  ELSE current.priceHistory

\* a bug: an entry is appended on every update, changed amount or not
nextPriceHistoryAlways(current, payload, now) ==
  IF payload.resetPriceHistory \/ current.priceHistory = <<>>
  THEN <<Entry(nextAmountOf(current, payload), now)>>
  ELSE Append(current.priceHistory, Entry(nextAmountOf(current, payload), now))

\* a bug: a changed amount overwrites the last entry instead of adding one
nextPriceHistoryOverwrite(current, payload, now) ==
  IF payload.resetPriceHistory \/ current.priceHistory = <<>>
  THEN <<Entry(nextAmountOf(current, payload), now)>>
  ELSE IF Last(current.priceHistory).amount # nextAmountOf(current, payload)
       THEN [current.priceHistory EXCEPT
               ![Len(current.priceHistory)] = Entry(nextAmountOf(current, payload), now)]
       ELSE current.priceHistory

\* updateFixedExpense: the priceHistory written back
nextPriceHistory(current, payload, now) ==
  LET nextAmount == nextAmountOf(current, payload)
      priceHistory == current.priceHistory
  IN IF payload.resetPriceHistory THEN <<Entry(nextAmount, now)>>
     ELSE IF priceHistory = <<>> THEN <<Entry(nextAmount, now)>>
     ELSE IF Last(priceHistory).amount # nextAmount
          THEN Append(priceHistory, Entry(nextAmount, now))
          ELSE priceHistory

\* updateFixedExpense(id, payload): the record written at the found index
updateFixedExpense(current, payload, now) ==
  [current EXCEPT
     !.id = IF payload.id.k = "undef" THEN @ ELSE payload.id.n,
     !.level = IF payload.hasLevel THEN payload.level ELSE @,
     !.owners = IF payload.hasOwners THEN NonBlank(payload.owners) ELSE @,
     !.category = IF payload.hasCategory THEN payload.category ELSE @,
     !.amountPerMonth = nextAmountOf(current, payload),
     !.priceHistory = nextPriceHistory(current, payload, now)]

\* a bug: the history is cut down to its first entry
resetKeepsFirstEntry(expense, now) ==
  [expense EXCEPT !.priceHistory = <<Entry(Head(expense.priceHistory).amount, now)>>]

\* resetFixedExpensePriceHistory(id): the record written at the found index
resetFixedExpensePriceHistory(expense, now) ==
  [expense EXCEPT !.priceHistory = <<Entry(expense.amountPerMonth, now)>>]

\* deleteFixedExpense(id)
deleteFixedExpense(id) == SelectSeq(fixedExpenses, LAMBDA e : e.id # id)

\* bulkAddOwnersToFixedExpenses(owners): the owners of one expense afterwards
bulkAddOwners(expense, owners) ==
  LET existingOwners == NonBlank(expense.owners)
      mergedOwners == Unique(existingOwners \o NonBlank(owners))
  IN IF Len(mergedOwners) # Len(existingOwners)
     THEN [expense EXCEPT !.owners = mergedOwners]
     ELSE expense

-----------------------------------------------------------------------------
(* Categories: server/db.js *)

\* the categories ensureDefaults creates in an empty store
DefaultCategories ==
  <<[id |-> 1, name |-> "Lønn"], [id |-> 2, name |-> "Abonnementer"],
    [id |-> 3, name |-> "Lån"], [id |-> 4, name |-> "Sparing"]>>

\* updateCategory(id, payload): does the rename cascade to the fixed expenses
categoryRenamed(current, payload) ==
  payload.name # "" /\ payload.name # current.name

\* updateCategory(id, payload): the fixed expenses afterwards
cascadeCategory(current, payload) ==
  IF categoryRenamed(current, payload)
  THEN [i \in 1..Len(fixedExpenses) |->
          IF fixedExpenses[i].category = current.name
          THEN [fixedExpenses[i] EXCEPT !.category = payload.name]
          ELSE fixedExpenses[i]]
  ELSE fixedExpenses

\* addCategory / addPage / addTransaction: a record whose id is already held
\* replaces the holder, any other record is pushed
PutById(s, record) ==
  IF FindIndexById(s, record.id) # 0
  THEN [s EXCEPT ![FindIndexById(s, record.id)] = record]
  ELSE Append(s, record)

\* addCategory(payload), for the payload POST /api/categories builds (no id)
addCategory(cats, cnt, name) ==
  PutById(cats, [id |-> cnt.categories + 1, name |-> name])

\* deleteCategory(id): the categories afterwards
deleteCategory(id) == SelectSeq(categories, LAMBDA cat : cat.id # id)

\* a cascading delete: the transactions of the category go with it
dropCategoryTransactions(id) ==
  SelectSeq(transactions, LAMBDA tx : tx.categoryId # id)

\* deleteCategory(id): the transactions afterwards
clearCategoryId(id) ==
  [i \in 1..Len(transactions) |->
     IF transactions[i].categoryId = id
     THEN [transactions[i] EXCEPT !.categoryId = 0]
     ELSE transactions[i]]

-----------------------------------------------------------------------------
(* Pages and transactions: server/db.js. A categoryId or pageId of 0 is null. *)

\* addPage(payload), for the payload POST /api/pages builds (no id)
addPage(name) == PutById(pages, [id |-> nextId("pages"), name |-> name])

\* deletePage(id): the pages afterwards
deletePage(id) == SelectSeq(pages, LAMBDA page : page.id # id)

\* deletePage(id): the transactions afterwards
clearPageId(id) ==
  [i \in 1..Len(transactions) |->
     IF transactions[i].pageId = id
     THEN [transactions[i] EXCEPT !.pageId = 0]
     ELSE transactions[i]]

\* an occurredOn string: its month and its day of the month
Occurred(month, day) == [month |-> month, day |-> day]

\* occurredOn: null
NullDate == Occurred(0, 0)

\* addTransaction(payload), for the payload POST /api/transactions builds (no id)
addTransaction(payload) ==
  PutById(transactions,
          [id |-> nextId("transactions"),
           amount |-> ToNumber(payload.amount),
           type |-> payload.type,
           categoryId |-> payload.categoryId,
           pageId |-> payload.pageId,
           occurredOn |-> payload.occurredOn])

\* updateTransaction(id, payload): the record written at the found index
updateTransaction(current, payload) ==
  [current EXCEPT
     !.id = IF payload.id.k = "undef" THEN @ ELSE payload.id.n,
     !.occurredOn = IF payload.hasOccurredOn THEN payload.occurredOn ELSE @,
     !.amount = IF payload.amount.k \in {"undef", "null"} THEN @
                ELSE ToNumber(payload.amount),
     !.type = IF payload.type = "" THEN @ ELSE payload.type,
     !.categoryId = payload.categoryId,
     !.pageId = payload.pageId]

\* deleteTransaction(id)
deleteTransaction(id) == SelectSeq(transactions, LAMBDA tx : tx.id # id)

-----------------------------------------------------------------------------
(* Settings and owners: server/db.js *)

Profile(name, income) == [name |-> name, monthlyNetIncome |-> income]

\* the value a Map holds for name after set() was called for each raw profile
\* in turn: the one of the last profile with that name
LastIncome(raw, name) ==
  LET i == CHOOSE i \in 1..Len(raw) :
             raw[i].name = name /\ \A j \in (i + 1)..Len(raw) : raw[j].name # name
      value == ToNumber(raw[i].monthlyNetIncome)
  IN IF ~value.nan /\ value.n >= 0 THEN value.n ELSE 0

\* the hash of a password under a salt: scrypt, taken to be injective
hashLockPassword(password, salt) == [password |-> password, salt |-> salt]

\* lockHash: '' of a store without lock
NoHash == hashLockPassword("", "")

\* normalizeOwnerProfiles without trim() and without the Map: every raw
\* profile is kept under the name it came with
normalizeOwnerProfilesKeepsAll(rawProfiles) ==
  [i \in 1..Len(rawProfiles) |->
     Profile(rawProfiles[i].name, LastIncome(rawProfiles, rawProfiles[i].name))]

\* normalizeOwnerProfiles(rawProfiles): {name, monthlyNetIncome} per distinct
\* non-blank name; every other field of a raw profile is dropped
normalizeOwnerProfiles(rawProfiles) ==
  LET trimmed == [i \in 1..Len(rawProfiles) |->
                    [rawProfiles[i] EXCEPT !.name = Trim(@)]]
      named == SelectSeq(trimmed, LAMBDA p : p.name # "")
      names == Unique([i \in 1..Len(named) |-> named[i].name])
  IN [i \in 1..Len(names) |-> Profile(names[i], LastIncome(named, names[i]))]

\* normalizeDefaultOwnerList(value)
normalizeDefaultOwnerList(value) == Unique(NonBlank(value))

\* uniqueOwnerList(owners)
uniqueOwnerList(owners) == Unique(NonBlank(owners))

\* getSettings() returning a settings object without default owners
getSettingsDropsDefaults ==
  [settings EXCEPT !.defaultFixedExpensesOwners = <<>>]

\* getSettings(): the settings object after the writes the getter makes. The
\* legacy field defaultFixedExpensesOwner is the first of the list in every
\* state, so the list is never refilled from it.
getSettings ==
  [settings EXCEPT
     !.defaultFixedExpensesOwners = normalizeDefaultOwnerList(@)]

\* updateSettings(payload): bankModeEnabled and bankAccounts of the payload are
\* not copied; the stored ones stay
updateSettings(payload) ==
  [settings EXCEPT
     !.monthlyNetIncome =
        NumberOrZero(Coalesce(payload.monthlyNetIncome, JsNum(@))),
     !.ownerProfiles =
        IF payload.hasProfiles THEN normalizeOwnerProfiles(payload.ownerProfiles) ELSE @,
     !.defaultFixedExpensesOwners =
        IF payload.hasDefaults
        THEN normalizeDefaultOwnerList(payload.defaultFixedExpensesOwners)
        ELSE @]

Rename(s, from, to) == [i \in 1..Len(s) |-> IF s[i] = from THEN to ELSE s[i]]

\* renameOwner(from, to) without uniqueOwnerList: a list that held both names
\* holds 'to' twice
renameOwnerKeepsDuplicates(expense, from, to) ==
  LET owners == NonBlank(expense.owners)
  IN IF ~Includes(owners, from) THEN expense
     ELSE [expense EXCEPT !.owners = Rename(owners, from, to)]

\* renameOwner(from, to): one fixed expense afterwards
renameOwnerInExpense(expense, from, to) ==
  LET owners == NonBlank(expense.owners)
  IN IF ~Includes(owners, from) THEN expense
     ELSE LET updatedOwners == uniqueOwnerList(Rename(owners, from, to))
          IN IF updatedOwners # owners
             THEN [expense EXCEPT !.owners = updatedOwners]
             ELSE expense

\* renameOwner(from, to): the owner profiles afterwards; the first profile
\* of a name wins
renameOwnerProfiles(ownerProfiles, from, to) ==
  LET renamed == [i \in 1..Len(ownerProfiles) |->
                    Profile(IF ownerProfiles[i].name = from THEN to
                            ELSE ownerProfiles[i].name,
                            ownerProfiles[i].monthlyNetIncome)]
  IN SelectSeq([i \in 1..Len(renamed) |->
                  IF \E j \in 1..(i - 1) : renamed[j].name = renamed[i].name
                  THEN Profile("", 0) ELSE renamed[i]],
               LAMBDA p : p.name # "")

\* renameOwner(from, to): the default owner list afterwards
renameOwnerDefaults(defaults, from, to) ==
  uniqueOwnerList(Rename(uniqueOwnerList(defaults), from, to))

\* deleteOwner(name) that empties the owners of every expense it touches
deleteOwnerDropsAll(expense, target) ==
  LET owners == NonBlank(expense.owners)
  IN IF Includes(owners, target)
     THEN [expense EXCEPT !.owners = <<>>]
     ELSE expense

\* deleteOwner(name): one fixed expense afterwards
deleteOwnerInExpense(expense, target) ==
  LET owners == NonBlank(expense.owners)
      filtered == SelectSeq(owners, LAMBDA o : o # target)
  IN IF Len(filtered) # Len(owners)
     THEN [expense EXCEPT !.owners = filtered]
     ELSE expense

-----------------------------------------------------------------------------
(* Import normalisation: server/db.js *)

\* Number(entry?.amount ?? entry?.price ?? entry?.beløp ?? entry?.value) for
\* an entry carrying only the field amount
entryAmount(entry) ==
  IF entry.amount.k = "null" THEN ToNumber(JsUndef) ELSE ToNumber(entry.amount)

\* .map(...).filter((entry) => Number.isFinite(entry.amount) && entry.changedAt)
keptEntries(rawHistory) ==
  LET mapped == [i \in 1..Len(rawHistory) |->
                   [nan |-> entryAmount(rawHistory[i]).nan,
                    amount |-> entryAmount(rawHistory[i]).n,
                    changedAt |-> rawHistory[i].changedAt]]
      kept == SelectSeq(mapped, LAMBDA e : ~e.nan /\ e.changedAt.k # "none")
  IN [i \in 1..Len(kept) |-> Entry(kept[i].amount, kept[i].changedAt)]

\* Array.prototype.sort is stable: e goes after the entries not later than it
RECURSIVE InsertByDate(_, _)
InsertByDate(sorted, e) ==
  IF sorted = <<>> THEN <<e>>
  ELSE IF Last(sorted).changedAt.t <= e.changedAt.t THEN Append(sorted, e)
  ELSE Append(InsertByDate(SubSeq(sorted, 1, Len(sorted) - 1), e), Last(sorted))

RECURSIVE StableSortByDate(_)
StableSortByDate(entries) ==
  IF entries = <<>> THEN <<>>
  ELSE InsertByDate(StableSortByDate(SubSeq(entries, 1, Len(entries) - 1)),
                    Last(entries))

\* .sort((a, b) => new Date(a.changedAt) - new Date(b.changedAt)): the orders
\* the sort may return. With an unparseable changedAt the comparator returns
\* NaN, it is inconsistent, and the order is implementation-defined.
sortByChangedAt(entries) ==
  IF \A i \in 1..Len(entries) : entries[i].changedAt.k = "date"
  THEN {StableSortByDate(entries)}
  ELSE {[i \in 1..Len(entries) |-> entries[p[i]]] :
          p \in Permutations(1..Len(entries))}

\* the synthetic entry pushed after the sort
withTrailingEntry(priceHistory, amount, lastChanged) ==
  IF priceHistory = <<>> THEN <<Entry(amount, lastChanged)>>
  ELSE IF Last(priceHistory).amount # amount
       THEN Append(priceHistory, Entry(amount, lastChanged))
       ELSE priceHistory

\* normalizeFixedExpense(raw, fallbackId): the records it may return (one per
\* order the sort may produce), for a raw record using the canonical field names
normalizeFixedExpense(raw, fallbackId, now) ==
  LET amount == NumberOrZero(Coalesce(raw.amountPerMonth, JsNum(0)))
      lastChanged == OrTs(raw.updatedAt, OrTs(raw.createdAt, now))
      histories == IF raw.hasHistory THEN sortByChangedAt(keptEntries(raw.priceHistory))
                   ELSE {<<>>}
  IN {[id |-> IF raw.id.k \in {"undef", "null"} THEN fallbackId ELSE raw.id.n,
       amountPerMonth |-> amount,
       category |-> IF raw.category = "" THEN "Annet" ELSE raw.category,
       owners |-> NonBlank(raw.owners),
       level |-> IF raw.level = "" THEN "Må-ha" ELSE raw.level,
       bindingEndDate |-> raw.bindingEndDate,
       createdAt |-> OrTs(raw.createdAt, now),
       updatedAt |-> OrTs(raw.updatedAt, now),
       priceHistory |-> withTrailingEntry(h, amount, lastChanged)] : h \in histories}

\* a normalized record read back as input of normalizeFixedExpense
AsRaw(expense) ==
  [id |-> JsNum(expense.id),
   amountPerMonth |-> JsNum(expense.amountPerMonth),
   category |-> expense.category,
   owners |-> expense.owners,
   level |-> expense.level,
   bindingEndDate |-> expense.bindingEndDate,
   hasHistory |-> TRUE,
   priceHistory |-> [i \in 1..Len(expense.priceHistory) |->
                       [amount |-> JsNum(expense.priceHistory[i].amount),
                        changedAt |-> expense.priceHistory[i].changedAt]],
   createdAt |-> expense.createdAt,
   updatedAt |-> expense.updatedAt]

\* the fields of a fixed expense the store model keeps
Stored(expense) ==
  [id |-> expense.id, amountPerMonth |-> expense.amountPerMonth,
   category |-> expense.category, owners |-> expense.owners,
   level |-> expense.level, bindingEndDate |-> expense.bindingEndDate,
   priceHistory |-> expense.priceHistory]

\* the results of a map whose i-th element may be any member of sets[i]
MapOutcomes(sets) ==
  LET all == UNION {sets[i] : i \in 1..Len(sets)}
  IN {out \in [1..Len(sets) -> all] : \A i \in 1..Len(sets) : out[i] \in sets[i]}

\* replaceAll(data): fixedExpenses
replaceAllFixedExpenses(data, now) ==
  MapOutcomes([index \in 1..Len(data.fixedExpenses) |->
                 normalizeFixedExpense(data.fixedExpenses[index], index, now)])

\* ensureDefaults(): fixedExpenses, normalized once more
ensureDefaultsFixedExpenses(expenses, now) ==
  MapOutcomes([index \in 1..Len(expenses) |->
                 normalizeFixedExpense(AsRaw(expenses[index]), index, now)])

MaxOf(S) == IF S = {} THEN 0
            ELSE LET x == CHOOSE x \in S : \A y \in S : y <= x IN x

MaxId0(s) == MaxOf({0} \cup {s[i].id : i \in 1..Len(s)})

\* replaceAll(data): categories
replaceAllCategories(data) ==
  [i \in 1..Len(data.categories) |->
     [id |-> IF data.categories[i].id.k \in {"undef", "null"} THEN i
             ELSE data.categories[i].id.n,
      name |-> data.categories[i].name]]

\* replaceAll(data): settings; bankModeEnabled and bankAccounts are not kept
replaceAllSettings(data) ==
  [monthlyNetIncome |-> NumberOrZero(data.settings.monthlyNetIncome),
   ownerProfiles |-> normalizeOwnerProfiles(data.settings.ownerProfiles),
   defaultFixedExpensesOwners |->
     normalizeDefaultOwnerList(data.settings.defaultFixedExpensesOwners),
   bankModeEnabled |-> FALSE,
   lockEnabled |-> data.settings.lockEnabled,
   lockSalt |-> data.settings.lockSalt,
   lockHash |-> data.settings.lockHash]

\* ensureDefaults(): the lock fields; a lock that is off keeps no salt or hash
ensureDefaultsLock(stored) ==
  IF stored.lockEnabled THEN stored
  ELSE [stored EXCEPT !.lockSalt = "", !.lockHash = NoHash]

\* ensureDefaults(): the default categories of a store without categories,
\* with ids from nextId('categories')
ensureDefaultsCategories(cats, cnt) ==
  IF cats = <<>>
  THEN [i \in 1..Len(DefaultCategories) |->
          [id |-> cnt.categories + i, name |-> DefaultCategories[i].name]]
  ELSE cats

-----------------------------------------------------------------------------
(* The request handled last: which handler ran, how it answered, what it
   computed from the request body, and the owner names it was given *)

Op(op, status) ==
  [op |-> op, status |-> status, idx |-> 0, hasAmount |-> FALSE, amount |-> 0,
   reset |-> FALSE, prevLen |-> 0, profiles |-> <<>>, from |-> "", to |-> ""]

-----------------------------------------------------------------------------
(* Handlers: server/index.js, each with the db.js call it makes *)

\* normalizeName(value), for a string
normalizeName(value) == Trim(value)

\* normalizeOwnersInput(owners), for an array of strings
normalizeOwnersInput(owners) == NonBlank(owners)

FIXED_EXPENSE_LEVELS == <<"Må-ha", "Kjekt å ha", "Luksus">>

\* POST /api/faste-utgifter; a level of "" is a body without level
PostFixedExpense(body) ==
  /\ Len(fixedExpenses) < MaxExpenses
  /\ counters.fixedExpenses < MaxId
  /\ IF \/ ToNumber(body.amountPerMonth).nan
        \/ body.level # "" /\ ~Includes(FIXED_EXPENSE_LEVELS, body.level)
     THEN /\ lastOp' = Op("postFixedExpense", 400)
          /\ UNCHANGED <<fixedExpenses, counters>>
     ELSE IF counters.primitive
     THEN /\ lastOp' = Op("postFixedExpense", 500)
          /\ UNCHANGED <<fixedExpenses, counters>>
     ELSE LET expense == addFixedExpense(
                [amountPerMonth |-> body.amountPerMonth,
                 category |-> body.category,
                 owners |-> normalizeOwnersInput(body.owners),
                 level |-> body.level,
                 bindingEndDate |-> body.bindingEndDate], Now)
          IN /\ fixedExpenses' = Append(fixedExpenses, expense)
             /\ counters' = [counters EXCEPT !.fixedExpenses = expense.id]
             /\ lastOp' = [Op("postFixedExpense", 201) EXCEPT
                             !.idx = Len(fixedExpenses) + 1,
                             !.hasAmount = TRUE,
                             !.amount = expense.amountPerMonth]
  /\ UNCHANGED <<categories, settings, clock, nrm, activeLockTokens, issuedTokens, pages, transactions>>

\* PUT /api/faste-utgifter/:id
PutFixedExpense(id, payload) ==
  LET index == FindIndexById(fixedExpenses, id)
      update == [payload EXCEPT
                   !.category = IF payload.hasCategory /\ @ = "" THEN "Annet" ELSE @,
                   !.owners = normalizeOwnersInput(@)]
  IN /\ IF \/ /\ payload.hasLevel /\ payload.level # ""
                 /\ ~Includes(FIXED_EXPENSE_LEVELS, payload.level)
              \/ /\ payload.amountPerMonth.k # "undef"
                 /\ ToNumber(payload.amountPerMonth).nan
        THEN /\ lastOp' = Op("putFixedExpense", 400)
             /\ UNCHANGED fixedExpenses
        ELSE IF index = 0
        THEN /\ lastOp' = Op("putFixedExpense", 404)
             /\ UNCHANGED fixedExpenses
        ELSE LET current == fixedExpenses[index]
                 updated == updateFixedExpense(current, update, Now)
             IN /\ Len(updated.priceHistory) <= MaxHist
                /\ fixedExpenses' = [fixedExpenses EXCEPT ![index] = updated]
                /\ lastOp' = [Op("putFixedExpense", 200) EXCEPT
                                !.idx = index,
                                !.hasAmount = (payload.amountPerMonth.k # "undef"),
                                !.amount = updated.amountPerMonth,
                                !.reset = payload.resetPriceHistory,
                                !.prevLen = Len(current.priceHistory)]
     /\ UNCHANGED <<categories, settings, counters, clock, nrm, activeLockTokens, issuedTokens, pages, transactions>>

\* POST /api/faste-utgifter/:id/reset-price-history
PostResetPriceHistory(id) ==
  LET index == FindIndexById(fixedExpenses, id)
  IN /\ IF index = 0
        THEN /\ lastOp' = Op("resetPriceHistory", 404)
             /\ UNCHANGED fixedExpenses
        ELSE /\ fixedExpenses' =
                  [fixedExpenses EXCEPT
                     ![index] = resetFixedExpensePriceHistory(@, Now)]
             /\ lastOp' = [Op("resetPriceHistory", 200) EXCEPT
                             !.idx = index,
                             !.amount = fixedExpenses[index].amountPerMonth,
                             !.reset = TRUE,
                             !.prevLen = Len(fixedExpenses[index].priceHistory)]
     /\ UNCHANGED <<categories, settings, counters, clock, nrm, activeLockTokens, issuedTokens, pages, transactions>>

\* DELETE /api/faste-utgifter/:id
DeleteFixedExpense(id) ==
  /\ fixedExpenses' = deleteFixedExpense(id)
  /\ lastOp' = Op("deleteFixedExpense", 200)
  /\ UNCHANGED <<categories, settings, counters, clock, nrm, activeLockTokens, issuedTokens, pages, transactions>>

\* POST /api/faste-utgifter/bulk-owners
PostBulkOwners(owners) ==
  /\ IF normalizeOwnersInput(owners) = <<>>
     THEN /\ lastOp' = Op("bulkOwners", 400)
          /\ UNCHANGED fixedExpenses
     ELSE /\ fixedExpenses' =
               [i \in 1..Len(fixedExpenses) |->
                  bulkAddOwners(fixedExpenses[i], normalizeOwnersInput(owners))]
          /\ lastOp' = Op("bulkOwners", 200)
  /\ UNCHANGED <<categories, settings, counters, clock, nrm, activeLockTokens, issuedTokens, pages, transactions>>

\* PUT /api/categories/:id
PutCategory(id, payload) ==
  LET index == FindIndexById(categories, id)
  IN /\ IF index = 0
        THEN /\ lastOp' = Op("putCategory", 404)
             /\ UNCHANGED <<categories, fixedExpenses>>
        ELSE /\ categories' = [categories EXCEPT ![index].name = payload.name]
             /\ fixedExpenses' = cascadeCategory(categories[index], payload)
             /\ lastOp' = Op("putCategory", 200)
     /\ UNCHANGED <<settings, counters, clock, nrm, activeLockTokens, issuedTokens, pages, transactions>>

\* POST /api/categories
PostCategory(name) ==
  /\ Len(categories) < MaxCategories
  /\ counters.categories < Len(DefaultCategories) + MaxId
  /\ IF name = ""
     THEN /\ lastOp' = Op("postCategory", 400)
          /\ UNCHANGED <<categories, counters>>
     ELSE IF counters.primitive
     THEN /\ lastOp' = Op("postCategory", 500)
          /\ UNCHANGED <<categories, counters>>
     ELSE /\ categories' = addCategory(categories, counters, name)
          /\ counters' = [counters EXCEPT !.categories = @ + 1]
          /\ lastOp' = [Op("postCategory", 201) EXCEPT !.idx = nextId("categories")]
  /\ UNCHANGED <<fixedExpenses, pages, transactions, settings, clock, nrm, activeLockTokens, issuedTokens>>

\* DELETE /api/categories/:id
DeleteCategory(id) ==
  /\ categories' = deleteCategory(id)
  /\ transactions' = clearCategoryId(id)
  /\ lastOp' = [Op("deleteCategory", 200) EXCEPT !.idx = id]
  /\ UNCHANGED <<fixedExpenses, pages, settings, counters, clock, nrm, activeLockTokens, issuedTokens>>

\* POST /api/pages
PostPage(name) ==
  /\ Len(pages) < MaxPages
  /\ counters.pages < MaxId
  /\ IF name = ""
     THEN /\ lastOp' = Op("postPage", 400)
          /\ UNCHANGED <<pages, counters>>
     ELSE IF counters.primitive
     THEN /\ lastOp' = Op("postPage", 500)
          /\ UNCHANGED <<pages, counters>>
     ELSE /\ pages' = addPage(name)
          /\ counters' = [counters EXCEPT !.pages = @ + 1]
          /\ lastOp' = [Op("postPage", 201) EXCEPT !.idx = nextId("pages")]
  /\ UNCHANGED <<fixedExpenses, categories, transactions, settings, clock, nrm, activeLockTokens, issuedTokens>>

\* DELETE /api/pages/:id
DeletePage(id) ==
  /\ pages' = deletePage(id)
  /\ transactions' = clearPageId(id)
  /\ lastOp' = [Op("deletePage", 200) EXCEPT !.idx = id]
  /\ UNCHANGED <<fixedExpenses, categories, settings, counters, clock, nrm, activeLockTokens, issuedTokens>>

\* !amount
Falsy(v) == v.k \in {"undef", "null"} \/ (v.k = "num" /\ v.n = 0)

\* POST /api/transactions; title and occurredOn are present, a type of "" is a
\* body without type
PostTransaction(body) ==
  /\ Len(transactions) < MaxTransactions
  /\ counters.transactions < MaxId
  /\ IF Falsy(body.amount) \/ body.type = "" \/ ~body.hasOccurredOn
          \/ body.occurredOn = NullDate
     THEN /\ lastOp' = Op("postTransaction", 400)
          /\ UNCHANGED <<transactions, counters>>
     ELSE IF counters.primitive
     THEN /\ lastOp' = Op("postTransaction", 500)
          /\ UNCHANGED <<transactions, counters>>
     ELSE /\ transactions' = addTransaction(body)
          /\ counters' = [counters EXCEPT !.transactions = @ + 1]
          /\ lastOp' = [Op("postTransaction", 201) EXCEPT
                          !.idx = nextId("transactions")]
  /\ UNCHANGED <<fixedExpenses, categories, pages, settings, clock, nrm, activeLockTokens, issuedTokens>>

\* PUT /api/transactions/:id
PutTransaction(id, body) ==
  LET index == FindIndexById(transactions, id)
  IN /\ IF index = 0
        THEN /\ lastOp' = Op("putTransaction", 404)
             /\ UNCHANGED transactions
        ELSE /\ transactions' =
                  [transactions EXCEPT ![index] = updateTransaction(@, body)]
             /\ lastOp' = [Op("putTransaction", 200) EXCEPT !.idx = id]
     /\ UNCHANGED <<fixedExpenses, categories, pages, settings, counters, clock, nrm, activeLockTokens, issuedTokens>>

\* DELETE /api/transactions/:id
DeleteTransaction(id) ==
  /\ transactions' = deleteTransaction(id)
  /\ lastOp' = [Op("deleteTransaction", 200) EXCEPT !.idx = id]
  /\ UNCHANGED <<fixedExpenses, categories, pages, settings, counters, clock, nrm, activeLockTokens, issuedTokens>>

\* DELETE /api/transactions
ClearTransactions ==
  /\ transactions' = <<>>
  /\ lastOp' = Op("clearTransactions", 200)
  /\ UNCHANGED <<fixedExpenses, categories, pages, settings, counters, clock, nrm, activeLockTokens, issuedTokens>>

\* the clock advances between requests
Tick ==
  /\ clock < MaxClock
  /\ clock' = clock + 1
  /\ UNCHANGED <<fixedExpenses, categories, settings, counters, lastOp, nrm, activeLockTokens, issuedTokens, pages, transactions>>

\* PUT /api/settings: is every named profile of the body acceptable
profilesAccepted(ownerProfiles) ==
  \A i \in 1..Len(ownerProfiles) :
    Trim(ownerProfiles[i].name) # "" =>
      LET income == ToNumber(ownerProfiles[i].monthlyNetIncome)
          sharedContribution ==
            ToNumber(Coalesce(ownerProfiles[i].sharedContribution, JsNum(0)))
      IN /\ ~income.nan /\ income.n >= 0
         /\ ~sharedContribution.nan /\ sharedContribution.n >= 0

\* PUT /api/settings: sanitizedProfiles (no bank accounts in the body)
sanitizedProfiles(ownerProfiles) ==
  LET named == SelectSeq(ownerProfiles, LAMBDA p : Trim(p.name) # "")
  IN [i \in 1..Len(named) |->
        [name |-> Trim(named[i].name),
         monthlyNetIncome |-> JsNum(ToNumber(named[i].monthlyNetIncome).n),
         sharedContribution |->
           JsNum(ToNumber(Coalesce(named[i].sharedContribution, JsNum(0))).n)]]

\* PUT /api/settings (the lock fields are not part of the body)
PutSettings(body) ==
  /\ IF \/ /\ body.monthlyNetIncome.k # "undef"
           /\ \/ ToNumber(body.monthlyNetIncome).nan
              \/ ToNumber(body.monthlyNetIncome).n < 0
        \/ body.hasProfiles /\ ~profilesAccepted(body.ownerProfiles)
     THEN /\ lastOp' = Op("putSettings", 400)
          /\ UNCHANGED settings
     ELSE LET update ==
                [monthlyNetIncome |->
                   IF body.monthlyNetIncome.k # "undef"
                   THEN JsNum(ToNumber(body.monthlyNetIncome).n)
                   ELSE JsUndef,
                 hasProfiles |-> body.hasProfiles,
                 ownerProfiles |-> sanitizedProfiles(body.ownerProfiles),
                 hasDefaults |-> body.hasDefaults,
                 defaultFixedExpensesOwners |->
                   Unique(NonBlank(body.defaultFixedExpensesOwners)),
                 bankModeEnabled |-> body.bankModeEnabled]
          IN /\ settings' = updateSettings(update)
             /\ lastOp' = [Op("putSettings", 200) EXCEPT
                             !.profiles = IF update.hasProfiles
                                          THEN update.ownerProfiles ELSE <<>>,
                             !.hasAmount = update.hasProfiles]
  /\ UNCHANGED <<fixedExpenses, categories, counters, clock, nrm, activeLockTokens, issuedTokens, pages, transactions>>

\* POST /api/owners/rename
PostRenameOwner(rawFrom, rawTo) ==
  LET from == normalizeName(rawFrom)
      to == normalizeName(rawTo)
  IN
  /\ IF from = "" \/ to = "" \/ from = to
     THEN /\ lastOp' = [Op("renameOwner", 400) EXCEPT !.from = from, !.to = to]
          /\ UNCHANGED <<fixedExpenses, settings>>
     ELSE LET expenses == [i \in 1..Len(fixedExpenses) |->
                             renameOwnerInExpense(fixedExpenses[i], from, to)]
              nextProfiles == renameOwnerProfiles(settings.ownerProfiles, from, to)
              renamedDefaults ==
                renameOwnerDefaults(settings.defaultFixedExpensesOwners, from, to)
              changed == \/ expenses # fixedExpenses
                         \/ nextProfiles # settings.ownerProfiles
                         \/ renamedDefaults #
                              uniqueOwnerList(settings.defaultFixedExpensesOwners)
          IN /\ fixedExpenses' = expenses
             /\ settings' =
                  [settings EXCEPT
                     !.ownerProfiles = nextProfiles,
                     !.defaultFixedExpensesOwners =
                        IF renamedDefaults # uniqueOwnerList(@)
                        THEN renamedDefaults ELSE @]
             /\ lastOp' = [Op("renameOwner", IF changed THEN 200 ELSE 404)
                            EXCEPT !.from = from, !.to = to]
  /\ UNCHANGED <<categories, counters, clock, nrm, activeLockTokens, issuedTokens, pages, transactions>>

\* POST /api/owners/delete
PostDeleteOwner(rawName) ==
  LET name == normalizeName(rawName)
  IN
  /\ IF name = ""
     THEN /\ lastOp' = [Op("deleteOwner", 400) EXCEPT !.from = name]
          /\ UNCHANGED <<fixedExpenses, settings>>
     ELSE LET expenses == [i \in 1..Len(fixedExpenses) |->
                             deleteOwnerInExpense(fixedExpenses[i], name)]
              profiles == SelectSeq(settings.ownerProfiles, LAMBDA p : p.name # name)
              defaults ==
                uniqueOwnerList(SelectSeq(settings.defaultFixedExpensesOwners,
                                          LAMBDA o : o # name))
              changed == \/ expenses # fixedExpenses
                         \/ Len(profiles) # Len(settings.ownerProfiles)
                         \/ Len(defaults) # Len(settings.defaultFixedExpensesOwners)
          IN /\ fixedExpenses' = expenses
             /\ settings' = [settings EXCEPT
                               !.ownerProfiles = profiles,
                               !.defaultFixedExpensesOwners = defaults]
             /\ lastOp' = [Op("deleteOwner", IF changed THEN 200 ELSE 404)
                            EXCEPT !.from = name]
  /\ UNCHANGED <<categories, counters, clock, nrm, activeLockTokens, issuedTokens, pages, transactions>>

\* POST /api/import: the fixed expenses after replaceAll(payload) and
\* ensureDefaults(), and the fixedExpenses counter replaceAll computed
importedFixedExpenses(data, now) ==
  UNION {{[expenses |-> ensured, highest |-> MaxId0(replaced)] :
            ensured \in ensureDefaultsFixedExpenses(replaced, now)} :
           replaced \in replaceAllFixedExpenses(data, now)}

\* replaceAll(data): pages
replaceAllPages(data) ==
  [i \in 1..Len(data.pages) |->
     [id |-> IF data.pages[i].id.k \in {"undef", "null"} THEN i
             ELSE data.pages[i].id.n,
      name |-> data.pages[i].name]]

\* replaceAll(data): transactions
replaceAllTransactions(data) ==
  [i \in 1..Len(data.transactions) |->
     LET tx == data.transactions[i]
     IN [id |-> IF tx.id.k \in {"undef", "null"} THEN i ELSE tx.id.n,
         amount |-> [nan |-> FALSE, n |-> NumberOrZero(tx.amount)],
         type |-> IF tx.type = "" THEN "expense" ELSE tx.type,
         categoryId |-> tx.categoryId,
         pageId |-> tx.pageId,
         occurredOn |-> tx.occurredOn]]

\* replaceAll(data): counters, for a document without a counters object
replaceAllCounters(cats, pgs, txs, highestFixedId) ==
  [categories |-> MaxId0(cats), pages |-> MaxId0(pgs),
   transactions |-> MaxId0(txs), fixedExpenses |-> highestFixedId,
   primitive |-> FALSE]

\* POST /api/import: replaceAll(payload), then ensureDefaults().
\* replaceAll throws before it writes when a collection of the document is no
\* array. ensureDefaults throws at its first write to state.counters when the
\* document's counters is a truthy primitive: the method is strict code.
PostImport(data, imported) ==
  LET cats == replaceAllCategories(data)
      pgs == replaceAllPages(data)
      txs == replaceAllTransactions(data)
      cnt == IF data.counters.k = "none"
             THEN replaceAllCounters(cats, pgs, txs, imported.highest)
             ELSE [categories |-> data.counters.categories,
                   pages |-> data.counters.pages,
                   transactions |-> data.counters.transactions,
                   fixedExpenses |-> data.counters.fixedExpenses,
                   primitive |-> data.counters.k = "primitive"]
  IN IF ~data.wellFormed
     THEN /\ lastOp' = Op("import", 400)
          /\ UNCHANGED <<fixedExpenses, categories, pages, transactions, settings,
                         counters, clock, nrm, activeLockTokens, issuedTokens>>
     ELSE /\ fixedExpenses' =
               [i \in 1..Len(imported.expenses) |-> Stored(imported.expenses[i])]
          /\ pages' = pgs
          /\ transactions' = txs
          /\ settings' = ensureDefaultsLock(replaceAllSettings(data))
          /\ IF cnt.primitive
             THEN /\ categories' = cats
                  /\ counters' = cnt
                  /\ lastOp' = Op("import", 400)
             ELSE /\ categories' = ensureDefaultsCategories(cats, cnt)
                  /\ counters' =
                       [cnt EXCEPT
                          !.categories = IF cats = <<>>
                                         THEN @ + Len(DefaultCategories) ELSE @,
                          !.fixedExpenses = MaxOf({@, MaxId0(imported.expenses)})]
                  /\ lastOp' = Op("import", 200)
          /\ UNCHANGED <<clock, nrm, activeLockTokens, issuedTokens>>

-----------------------------------------------------------------------------
(* A stand-alone call of normalizeFixedExpense on an externally supplied record *)

NrmIdle == [stage |-> "idle", raw |-> <<>>, out |-> <<>>]

NormalizeCall ==
  /\ nrm.stage = "input"
  /\ \E out \in normalizeFixedExpense(nrm.raw, 1, Now) :
       nrm' = [nrm EXCEPT !.stage = "done", !.out = out]
  /\ UNCHANGED <<fixedExpenses, categories, settings, counters, clock, lastOp, pages,
                 transactions, activeLockTokens, issuedTokens>>

-----------------------------------------------------------------------------
(* GET /api/dashboard: server/index.js, over the current store *)

\* expense.amountPerMonth || 0, summed
totalOf(expenses) == SumSeq([i \in 1..Len(expenses) |-> expenses[i].amountPerMonth])

ownerProfiles == settings.ownerProfiles

\* a field of a stored profile, undefined when the profile has no such field
ProfileField(profile, field) ==
  IF field \in DOMAIN profile THEN JsNum(profile[field]) ELSE JsUndef

\* ownerIncomeMap / ownerContributionMap: the profiles whose field is a finite number
profileMapHas(field, owner) ==
  \E i \in 1..Len(ownerProfiles) :
    /\ ownerProfiles[i].name = owner
    /\ ~ToNumber(ProfileField(ownerProfiles[i], field)).nan

\* map.get(owner) || 0; a later profile of the same name overwrites an earlier one
profileMapGet(field, owner) ==
  IF profileMapHas(field, owner)
  THEN LET i == CHOOSE i \in 1..Len(ownerProfiles) :
                  /\ ownerProfiles[i].name = owner
                  /\ ~ToNumber(ProfileField(ownerProfiles[i], field)).nan
                  /\ \A j \in (i + 1)..Len(ownerProfiles) :
                       ~(/\ ownerProfiles[j].name = owner
                         /\ ~ToNumber(ProfileField(ownerProfiles[j], field)).nan)
       IN ToNumber(ProfileField(ownerProfiles[i], field)).n
  ELSE 0

defaultOwners == NonBlank(settings.defaultFixedExpensesOwners)

bankModeEnabled == settings.bankModeEnabled

participatingOwners ==
  IF defaultOwners # <<>> THEN defaultOwners
  ELSE Unique(NonBlank([i \in 1..Len(ownerProfiles) |-> ownerProfiles[i].name]))

\* filteredFixedExpenses, for a given list of default owners
filteredFixedExpensesFor(owners) ==
  IF owners # <<>>
  THEN SelectSeq(fixedExpenses,
                 LAMBDA expense : \E i \in 1..Len(expense.owners) :
                                    Includes(owners, expense.owners[i]))
  ELSE fixedExpenses

filteredFixedExpenses == filteredFixedExpensesFor(defaultOwners)

\* a bug: the total is taken over the owner-filtered expenses
fixedExpenseTotalFiltered == totalOf(filteredFixedExpenses)

fixedExpenseTotal == totalOf(fixedExpenses)

effectiveFixedExpenseTotal == totalOf(filteredFixedExpenses)

monthlyNetIncome == settings.monthlyNetIncome

ownersHaveCompleteIncome ==
  \A i \in 1..Len(defaultOwners) : profileMapHas("monthlyNetIncome", defaultOwners[i])

ownerIncome ==
  SumSeq([i \in 1..Len(defaultOwners) |->
            profileMapGet("monthlyNetIncome", defaultOwners[i])])

bankModeOwnerStats ==
  [i \in 1..Len(participatingOwners) |->
     [name |-> participatingOwners[i],
      monthlyNetIncome |-> profileMapGet("monthlyNetIncome", participatingOwners[i]),
      sharedContribution |-> profileMapGet("sharedContribution", participatingOwners[i])]]

bankModeTotalIncome ==
  SumSeq([i \in 1..Len(bankModeOwnerStats) |-> bankModeOwnerStats[i].monthlyNetIncome])

bankModeTotalContribution ==
  SumSeq([i \in 1..Len(bankModeOwnerStats) |-> bankModeOwnerStats[i].sharedContribution])

activeMonthlyNetIncome ==
  IF bankModeEnabled THEN bankModeTotalContribution
  ELSE IF defaultOwners # <<>> /\ ownersHaveCompleteIncome THEN ownerIncome
  ELSE monthlyNetIncome

freeAfterFixed == activeMonthlyNetIncome - effectiveFixedExpenseTotal

-----------------------------------------------------------------------------
(* The fixed expenses page: client/src/pages/FixedExpensesPage.jsx, over the
   settings it loaded, with no manual owner selection *)

\* activeOwners
activeOwners == settings.defaultFixedExpensesOwners

\* activeIncome
activeIncome ==
  IF activeOwners # <<>>
  THEN SumSeq([i \in 1..Len(activeOwners) |->
                 profileMapGet("monthlyNetIncome", activeOwners[i])])
  ELSE NumberOrZero(JsNum(settings.monthlyNetIncome))

\* missingIncomeOwners, once the settings are loaded
missingIncomeOwners ==
  SelectSeq(activeOwners, LAMBDA owner : ~profileMapHas("monthlyNetIncome", owner))

-----------------------------------------------------------------------------
(* GET /api/dashboard, continued *)

\* a + b of two JavaScript numbers; NaN if either is
JsAdd(a, b) ==
  [nan |-> a.nan \/ b.nan, n |-> IF a.nan \/ b.nan THEN 0 ELSE a.n + b.n]

\* a - b of two JavaScript numbers; NaN if either is
JsSub(a, b) ==
  [nan |-> a.nan \/ b.nan, n |-> IF a.nan \/ b.nan THEN 0 ELSE a.n - b.n]

\* txs.reduce((sum, tx) => sum + tx.amount, 0)
RECURSIVE ReduceAmounts(_)
ReduceAmounts(txs) ==
  IF txs = <<>> THEN [nan |-> FALSE, n |-> 0]
  ELSE JsAdd(ReduceAmounts(SubSeq(txs, 1, Len(txs) - 1)), txs[Len(txs)].amount)

totalIncome ==
  ReduceAmounts(SelectSeq(transactions, LAMBDA tx : tx.type = "income"))

totalExpense ==
  ReduceAmounts(SelectSeq(transactions, LAMBDA tx : tx.type = "expense"))

net == JsSub(totalIncome, totalExpense)

\* occurredOn.slice(0, 7): the year and month of a date
Period(occurredOn) == occurredOn.month

\* tx.occurredOn.slice(0, 7) throws a TypeError on a transaction whose
\* occurredOn is null
monthlyThrows ==
  \E i \in 1..Len(transactions) : transactions[i].occurredOn = NullDate

\* monthlyMap[period], once every transaction is folded in
monthlyEntry(period) ==
  [period |-> period,
   income |-> ReduceAmounts(SelectSeq(transactions, LAMBDA tx :
                Period(tx.occurredOn) = period /\ tx.type = "income")),
   expenses |-> ReduceAmounts(SelectSeq(transactions, LAMBDA tx :
                  Period(tx.occurredOn) = period /\ tx.type # "income"))]

\* the periods in ascending order
RECURSIVE SortPeriods(_)
SortPeriods(periods) ==
  IF periods = {} THEN <<>>
  ELSE LET first == CHOOSE p \in periods : \A q \in periods : p <= q
       IN <<first>> \o SortPeriods(periods \ {first})

\* monthly: Object.values(monthlyMap) sorted by period
monthly ==
  LET periods == SortPeriods({Period(transactions[i].occurredOn) :
                                i \in 1..Len(transactions)})
  IN [i \in 1..Len(periods) |-> monthlyEntry(periods[i])]

\* Object.entries of a totals map filled expense by expense: one entry per key,
\* in the order the keys first occur
RECURSIVE TotalsByKey(_, _)
TotalsByKey(keys, amounts) ==
  IF keys = <<>> THEN <<>>
  ELSE LET n == Len(keys)
           rest == TotalsByKey(SubSeq(keys, 1, n - 1), SubSeq(amounts, 1, n - 1))
           at == CHOOSE i \in 0..Len(rest) :
                   IF \E j \in 1..Len(rest) : rest[j].key = keys[n]
                   THEN i # 0 /\ rest[i].key = keys[n]
                   ELSE i = 0
       IN IF at = 0 THEN Append(rest, [key |-> keys[n], total |-> amounts[n]])
          ELSE [rest EXCEPT ![at].total = @ + amounts[n]]

\* .sort((a, b) => b.total - a.total), stable
RECURSIVE SortByTotalDesc(_)
SortByTotalDesc(entries) ==
  IF entries = <<>> THEN <<>>
  ELSE LET n == Len(entries)
           sorted == SortByTotalDesc(SubSeq(entries, 1, n - 1))
           e == entries[n]
           k == Cardinality({i \in 1..Len(sorted) : sorted[i].total >= e.total})
       IN SubSeq(sorted, 1, k) \o <<e>> \o SubSeq(sorted, k + 1, Len(sorted))

\* fixedExpenseLevelTotals: [key |-> level, total |-> sum]
fixedExpenseLevelTotals ==
  SortByTotalDesc(
    TotalsByKey([i \in 1..Len(filteredFixedExpenses) |-> filteredFixedExpenses[i].level],
                [i \in 1..Len(filteredFixedExpenses) |->
                   filteredFixedExpenses[i].amountPerMonth]))

\* Math.ceil(a / d) for d > 0
CeilDiv(a, d) == -((-a) \div d)

\* the clock counts half days: 1000 * 60 * 60 * 24 ms are two of its units
DayUnits == 2

\* the days a binding may have left to be listed
BindingWindowDays == 90

\* daysLeft of an expense whose bindingEndDate is a date
daysLeft(expense) == CeilDiv(expense.bindingEndDate.t - clock, DayUnits)

\* .sort((a, b) => new Date(a.bindingEndDate) - new Date(b.bindingEndDate)),
\* stable, over items whose bindingEndDate is a date
RECURSIVE SortByBindingEndDate(_)
SortByBindingEndDate(items) ==
  IF items = <<>> THEN <<>>
  ELSE LET n == Len(items)
           sorted == SortByBindingEndDate(SubSeq(items, 1, n - 1))
           e == items[n]
           k == Cardinality({i \in 1..Len(sorted) :
                               sorted[i].bindingEndDate.t <= e.bindingEndDate.t})
       IN SubSeq(sorted, 1, k) \o <<e>> \o SubSeq(sorted, k + 1, Len(sorted))

\* bindingExpirations; a bindingEndDate that is no date gives daysLeft NaN,
\* which fails both comparisons
bindingExpirations ==
  LET dated == SelectSeq(filteredFixedExpenses,
                         LAMBDA expense : expense.bindingEndDate.k = "date")
      items == [i \in 1..Len(dated) |->
                  [id |-> dated[i].id,
                   bindingEndDate |-> dated[i].bindingEndDate,
                   amountPerMonth |-> dated[i].amountPerMonth,
                   daysLeft |-> daysLeft(dated[i])]]
  IN SortByBindingEndDate(
       SelectSeq(items, LAMBDA item : item.daysLeft >= 0
                                      /\ item.daysLeft <= BindingWindowDays))

\* categoryTotals: one entry per category, summing its expense transactions
categoryTotals ==
  [i \in 1..Len(categories) |->
     [id |-> categories[i].id,
      name |-> categories[i].name,
      total |-> ReduceAmounts(SelectSeq(transactions, LAMBDA tx :
                  tx.categoryId = categories[i].id /\ tx.type = "expense"))]]

\* the response of GET /api/dashboard, as far as the store model carries it
dashboardSummary ==
  [totalIncome |-> totalIncome,
   totalExpense |-> totalExpense,
   net |-> net,
   categoryTotals |-> categoryTotals,
   monthly |-> monthly,
   fixedExpenseTotal |-> fixedExpenseTotal,
   fixedExpenseLevelTotals |-> fixedExpenseLevelTotals,
   monthlyNetIncome |-> monthlyNetIncome,
   activeMonthlyNetIncome |-> activeMonthlyNetIncome,
   freeAfterFixed |-> freeAfterFixed,
   bankModeSummary |-> [enabled |-> bankModeEnabled,
                        totalIncome |-> bankModeTotalIncome,
                        totalContribution |-> bankModeTotalContribution,
                        owners |-> bankModeOwnerStats],
   effectiveFixedExpenseTotal |-> effectiveFixedExpenseTotal,
   bindingExpirations |-> bindingExpirations,
   fixedExpensesCount |-> Len(filteredFixedExpenses),
   fixedExpensePriceHistory |->
     [i \in 1..Len(filteredFixedExpenses) |->
        [id |-> filteredFixedExpenses[i].id,
         history |-> filteredFixedExpenses[i].priceHistory]]]

-----------------------------------------------------------------------------
(* Initial state: the store constructed from an absent or empty store.json.
   A store.json written by hand or by another build may carry
   settings.bankModeEnabled, which load() and ensureDefaults() keep. *)

InitStore ==
  /\ fixedExpenses = <<>>
  /\ categories = DefaultCategories
  /\ pages = <<>>
  /\ transactions = <<>>
  /\ counters = [categories |-> Len(DefaultCategories), pages |-> 0,
                 transactions |-> 0, fixedExpenses |-> 0, primitive |-> FALSE]
  /\ settings = [monthlyNetIncome |-> 0, ownerProfiles |-> <<>>,
                 defaultFixedExpensesOwners |-> <<>>, bankModeEnabled |-> FALSE,
                 lockEnabled |-> FALSE, lockSalt |-> "", lockHash |-> NoHash]
  /\ clock = 1
  /\ lastOp = Op("init", 200)
  /\ activeLockTokens = <<>>
  /\ issuedTokens = 0

Init == InitStore /\ nrm = NrmIdle

-----------------------------------------------------------------------------
(* Request bodies *)

Ids == 1..MaxId

FixedExpensePatch(amountPerMonth, reset, hasOwners, owners, hasCategory, category) ==
  [amountPerMonth |-> amountPerMonth, resetPriceHistory |-> reset,
   hasOwners |-> hasOwners, owners |-> owners,
   hasCategory |-> hasCategory, category |-> category,
   hasLevel |-> FALSE, level |-> "", id |-> JsUndef]

\* a body with only a level, which may be the empty string
LevelPatch(level) ==
  [FixedExpensePatch(JsUndef, FALSE, FALSE, <<>>, FALSE, "") EXCEPT
     !.hasLevel = TRUE, !.level = level]

\* a body with only an id
IdPatch(id) ==
  [FixedExpensePatch(JsUndef, FALSE, FALSE, <<>>, FALSE, "") EXCEPT !.id = JsNum(id)]

AmountPatch(amountPerMonth, reset) ==
  FixedExpensePatch(amountPerMonth, reset, FALSE, <<>>, FALSE, "")

FixedExpenseBody(amountPerMonth, owners, category, level, bindingEndDate) ==
  [amountPerMonth |-> amountPerMonth, owners |-> owners, category |-> category,
   level |-> level, bindingEndDate |-> bindingEndDate]

\* a body without level and bindingEndDate
ExpenseBody(amountPerMonth, owners, category) ==
  FixedExpenseBody(amountPerMonth, owners, category, "", NoTs)

RawEntry(amount, changedAt) == [amount |-> amount, changedAt |-> changedAt]

RawExpense(id, amountPerMonth, owners, priceHistory, updatedAt) ==
  [id |-> id, amountPerMonth |-> amountPerMonth, category |-> "",
   owners |-> owners, level |-> "", bindingEndDate |-> NoTs,
   hasHistory |-> TRUE, priceHistory |-> priceHistory,
   createdAt |-> NoTs, updatedAt |-> updatedAt]

RawProfile(name, income, shared) ==
  [name |-> name, monthlyNetIncome |-> income, sharedContribution |-> shared]

SettingsBody(income, hasProfiles, profiles, hasDefaults, defaults, bankMode) ==
  [monthlyNetIncome |-> income, hasProfiles |-> hasProfiles,
   ownerProfiles |-> profiles, hasDefaults |-> hasDefaults,
   defaultFixedExpensesOwners |-> defaults, bankModeEnabled |-> bankMode]

\* counters of an import document: absent, an object, or a truthy primitive
NoCounters ==
  [k |-> "none", categories |-> 0, pages |-> 0, transactions |-> 0,
   fixedExpenses |-> 0]

CountersObject(cats, pgs, txs, exps) ==
  [k |-> "object", categories |-> cats, pages |-> pgs, transactions |-> txs,
   fixedExpenses |-> exps]

PrimitiveCounters ==
  [k |-> "primitive", categories |-> 0, pages |-> 0, transactions |-> 0,
   fixedExpenses |-> 0]

\* the settings of a document written without lock fields
RawSettings(income, profiles, defaults, bankMode) ==
  [monthlyNetIncome |-> income, ownerProfiles |-> profiles,
   defaultFixedExpensesOwners |-> defaults, bankModeEnabled |-> bankMode,
   lockEnabled |-> FALSE, lockSalt |-> "", lockHash |-> NoHash]

\* a POST /api/import body; wellFormed is FALSE when one of its collections is
\* a truthy value that is no array
ImportDocument(expenses, cats, pgs, txs, stg, cnt, wellFormed) ==
  [fixedExpenses |-> expenses, categories |-> cats, pages |-> pgs,
   transactions |-> txs, settings |-> stg, counters |-> cnt,
   wellFormed |-> wellFormed]

ImportDoc(expenses, cats, profiles, defaults) ==
  ImportDocument(expenses, cats, <<>>, <<>>,
                 RawSettings(JsNum(0), profiles, defaults, FALSE), NoCounters, TRUE)

\* amounts a client sends: numbers, a numeric string, a non-numeric string
LedgerAmounts == {JsNum(100), JsNum(150), JsStr(150), JsBad}

\* import documents: histories with equal neighbours, out of order, with an
\* unparseable amount, with a missing or unparseable timestamp
RawHistories ==
  {<<>>,
   <<RawEntry(JsNum(150), DateTs(2))>>,
   <<RawEntry(JsNum(100), DateTs(1)), RawEntry(JsNum(100), DateTs(2))>>,
   <<RawEntry(JsNum(150), DateTs(2)), RawEntry(JsNum(100), DateTs(1))>>,
   <<RawEntry(JsNum(100), BadTs), RawEntry(JsNum(150), DateTs(1))>>,
   <<RawEntry(JsBad, DateTs(1)), RawEntry(JsNum(150), NoTs)>>}

ImportDocs ==
  {ImportDoc(<<RawExpense(JsUndef, amount, <<"a">>, h, updatedAt)>>, <<>>, <<>>, <<>>) :
     amount \in {JsNum(100), JsStr(150)},
     h \in RawHistories, updatedAt \in {NoTs, DateTs(1)}}

\* what normalisation makes of each document at each instant
ImportResults ==
  [t \in 1..MaxClock |->
     [doc \in ImportDocs |-> importedFixedExpenses(doc, DateTs(t))]]

-----------------------------------------------------------------------------
(* The fixed expenses as the API drives them: the handlers that write them,
   small request bodies *)

Next ==
  \/ \E amount \in {JsNum(100), JsBad} : PostFixedExpense(ExpenseBody(amount, <<"a">>, "Lån"))
  \/ \E id \in Ids, amount \in {JsUndef, JsNum(100), JsNum(150)}, reset \in BOOLEAN :
       PutFixedExpense(id, AmountPatch(amount, reset))
  \/ \E id \in Ids : PostResetPriceHistory(id)
  \/ \E id \in Ids : DeleteFixedExpense(id)
  \/ \E owners \in {<<"b">>, <<"">>} : PostBulkOwners(owners)
  \/ \E id \in {3, 9} : PutCategory(id, [name |-> "Bolig"])
  \/ \E to \in {"b", ""} : PostRenameOwner("a", to)
  \/ \E name \in {"b", ""} : PostDeleteOwner(name)
  \/ \E doc \in ImportDocs : \E imported \in ImportResults[clock][doc] :
       PostImport(doc, imported)
  \/ Tick

Spec == Init /\ [][Next]_vars

-----------------------------------------------------------------------------
(* The price-history ledger as the API drives it: fixed expenses are created,
   updated, reset and deleted; nothing is imported *)

NextLedger ==
  \/ \E amount \in LedgerAmounts : PostFixedExpense(ExpenseBody(amount, <<>>, ""))
  \/ \E id \in Ids, amount \in LedgerAmounts \cup {JsUndef}, reset \in BOOLEAN :
       PutFixedExpense(id, AmountPatch(amount, reset))
  \/ \E id \in Ids : PostResetPriceHistory(id)
  \/ \E id \in Ids : DeleteFixedExpense(id)
  \/ Tick

SpecLedger == Init /\ [][NextLedger]_vars

-----------------------------------------------------------------------------
(* The dashboard inputs as the API drives them: fixed expenses with owners,
   owner profiles, the default owner filter. bankModeEnabled is whatever the
   loaded store.json carried. *)

InitBankMode ==
  /\ fixedExpenses = <<>>
  /\ categories = DefaultCategories
  /\ pages = <<>>
  /\ transactions = <<>>
  /\ counters = [categories |-> Len(DefaultCategories), pages |-> 0,
                 transactions |-> 0, fixedExpenses |-> 0, primitive |-> FALSE]
  /\ settings \in {[monthlyNetIncome |-> 0, ownerProfiles |-> <<>>,
                    defaultFixedExpensesOwners |-> <<>>, bankModeEnabled |-> b,
                    lockEnabled |-> FALSE, lockSalt |-> "", lockHash |-> NoHash] :
                     b \in BOOLEAN}
  /\ clock = 1
  /\ lastOp = Op("init", 200)
  /\ nrm = NrmIdle
  /\ activeLockTokens = <<>>
  /\ issuedTokens = 0

ProfileBodies ==
  {<<RawProfile("a", JsNum(100), JsNum(50))>>,
   <<RawProfile("a", JsNum(100), JsNum(50)), RawProfile("b", JsNum(150), JsUndef)>>,
   <<RawProfile("a", JsNum(-100), JsNum(50))>>}

SettingsBodies ==
  {SettingsBody(JsUndef, TRUE, profiles, FALSE, <<>>, "undef") : profiles \in ProfileBodies}
  \cup {SettingsBody(JsUndef, FALSE, <<>>, TRUE, defaults, "undef") :
          defaults \in {<<>>, <<"a">>, <<"b">>, <<"a", "b">>}}
  \cup {SettingsBody(JsNum(100), FALSE, <<>>, FALSE, <<>>, "true")}

NextDashboard ==
  \/ \E amount \in {JsNum(100), JsNum(-100)}, owners \in {<<"a">>, <<"b">>} :
       PostFixedExpense(ExpenseBody(amount, owners, ""))
  \/ \E id \in Ids : DeleteFixedExpense(id)
  \/ \E body \in SettingsBodies : PutSettings(body)

SpecDashboard == InitBankMode /\ [][NextDashboard]_vars

-----------------------------------------------------------------------------
(* normalizeFixedExpense on externally supplied records *)

MaxRawHist == 2   \* entries of a supplied priceHistory

RawEntries ==
  {RawEntry(amount, changedAt) :
     amount \in {JsNum(100), JsNum(150), JsBad, JsNull},
     changedAt \in {DateTs(1), DateTs(2), BadTs, NoTs}}

RawSeqs(n) == UNION {[1..m -> RawEntries] : m \in 0..n}

RawInputs ==
  {[id |-> JsUndef, amountPerMonth |-> amount, category |-> "", owners |-> <<>>,
    level |-> "", bindingEndDate |-> NoTs, hasHistory |-> TRUE, priceHistory |-> h, createdAt |-> createdAt,
    updatedAt |-> updatedAt] :
     amount \in {JsNum(100), JsUndef}, h \in RawSeqs(MaxRawHist),
     createdAt \in {NoTs, DateTs(1)}, updatedAt \in {NoTs, DateTs(2)}}

InitNormalize ==
  /\ InitStore
  /\ nrm \in {[stage |-> "input", raw |-> raw, out |-> <<>>] : raw \in RawInputs}

NextNormalize == NormalizeCall

SpecNormalize == InitNormalize /\ [][NextNormalize]_vars

-----------------------------------------------------------------------------
(* The fixed-expense overview of the dashboard as the API drives it: fixed
   expenses with a level and a binding end date, the default owner filter,
   the passing of time *)

\* binding end dates around both ends of the 90-day window, in half days
BindingDates ==
  {DateTs(t) : t \in {-1, 0, 1, BindingWindowDays * DayUnits + 1,
                      BindingWindowDays * DayUnits + 2}}

OverviewBodies ==
  {FixedExpenseBody(JsNum(100), <<owner>>, "", level, date) :
     owner \in {"a", "b"},
     level \in {"", "Luksus", "Billig"},
     date \in BindingDates \cup {NoTs, BadTs}}

NextOverview ==
  \/ \E body \in OverviewBodies : PostFixedExpense(body)
  \/ \E id \in Ids : DeleteFixedExpense(id)
  \/ \E defaults \in {<<>>, <<"a">>} :
       PutSettings(SettingsBody(JsUndef, FALSE, <<>>, TRUE, defaults, "undef"))
  \/ Tick

SpecOverview == Init /\ [][NextOverview]_vars

-----------------------------------------------------------------------------
(* The owners as the API drives them: fixed expenses with owner lists, owner
   profiles and default owners in the settings, renaming and deleting *)

OwnerLists == {<<"a", "b">>, <<"b", "b">>, <<"c", "a">>}

OwnerSettingsBodies ==
  {SettingsBody(JsUndef, TRUE,
                <<RawProfile("a", JsNum(100), JsUndef),
                  RawProfile("b", JsNum(150), JsUndef)>>, FALSE, <<>>, "undef"),
   SettingsBody(JsUndef, FALSE, <<>>, TRUE, <<"b", "a">>, "undef")}

NextOwners ==
  \/ \E owners \in OwnerLists : PostFixedExpense(ExpenseBody(JsNum(100), owners, ""))
  \/ \E id \in Ids : DeleteFixedExpense(id)
  \/ \E body \in OwnerSettingsBodies : PutSettings(body)
  \/ \E from \in {"a", "b", ""}, to \in {"b", "c"} : PostRenameOwner(from, to)
  \/ \E name \in {"a", "c", ""} : PostDeleteOwner(name)

SpecOwners == Init /\ [][NextOwners]_vars

-----------------------------------------------------------------------------
(* The transactions and what they refer to, as the API drives them *)

\* ids of categories and pages a request can name: a default category, the
\* first category and the first page created, and none
CategoryRefs == {0, 1, Len(DefaultCategories) + 1}

PageRefs == {0, 1}

\* a request body of the transaction handlers; it has no id field
TransactionBody(amount, type, categoryId, pageId, occurredOn) ==
  [amount |-> amount, type |-> type, categoryId |-> categoryId,
   pageId |-> pageId, hasOccurredOn |-> TRUE, occurredOn |-> occurredOn,
   id |-> JsUndef]

\* PUT /api/transactions/:id {occurredOn: ...}, the other fields absent
DatePatch(occurredOn) == TransactionBody(JsUndef, "", 0, 0, occurredOn)

\* PUT /api/transactions/:id with a body that has no occurredOn
NoDatePatch(amount) ==
  [TransactionBody(amount, "", 0, 0, NullDate) EXCEPT !.hasOccurredOn = FALSE]

\* PUT /api/transactions/:id {id: ...}
TransactionIdPatch(id) == [NoDatePatch(JsUndef) EXCEPT !.id = JsNum(id)]

ReferenceBodies ==
  {TransactionBody(amount, "expense", categoryId, pageId, Occurred(1, 5)) :
     amount \in {JsNum(400), JsUndef},
     categoryId \in CategoryRefs, pageId \in PageRefs}

NextReferences ==
  \/ \E name \in {"Mat", ""} : PostCategory(name)
  \/ \E id \in CategoryRefs \ {0} : DeleteCategory(id)
  \/ \E name \in {"Ferie", ""} : PostPage(name)
  \/ \E id \in PageRefs \ {0} : DeletePage(id)
  \/ \E body \in ReferenceBodies : PostTransaction(body)
  \/ \E id \in Ids, body \in ReferenceBodies : PutTransaction(id, body)
  \/ \E id \in Ids : DeleteTransaction(id)
  \/ ClearTransactions

SpecReferences == Init /\ [][NextReferences]_vars

-----------------------------------------------------------------------------
(* The transactions and their amounts, as the API drives them *)

\* 2024-01-05, 2024-01-20 and 2024-02-01
OccurredOn == {Occurred(1, 5), Occurred(1, 20), Occurred(2, 1)}

AmountBodies ==
  {TransactionBody(amount, type, 0, 0, occurredOn) :
     amount \in {JsNum(1000), JsNum(400), JsNum(-400), JsNum(0), JsBad},
     type \in {"income", "expense", ""},
     occurredOn \in OccurredOn}

AmountPatches ==
  {TransactionBody(amount, "", 0, 0, Occurred(1, 5)) :
     amount \in {JsUndef, JsNum(400), JsBad}}

NextTotals ==
  \/ \E body \in AmountBodies : PostTransaction(body)
  \/ \E id \in Ids, body \in AmountPatches : PutTransaction(id, body)
  \/ \E id \in Ids : DeleteTransaction(id)

SpecTotals == Init /\ [][NextTotals]_vars

-----------------------------------------------------------------------------
(* GET /api/export: the store as JSON, which is what POST /api/import reads
   when a client sends an export back *)

\* a stored fixed expense in the export; createdAt is the time of its first
\* price, updatedAt the time of its last
exportedFixedExpense(expense) ==
  [id |-> JsNum(expense.id),
   amountPerMonth |-> JsNum(expense.amountPerMonth),
   category |-> expense.category,
   owners |-> expense.owners,
   level |-> expense.level,
   bindingEndDate |-> expense.bindingEndDate,
   hasHistory |-> TRUE,
   priceHistory |-> [i \in 1..Len(expense.priceHistory) |->
                       RawEntry(JsNum(expense.priceHistory[i].amount),
                                expense.priceHistory[i].changedAt)],
   createdAt |-> IF expense.priceHistory = <<>> THEN NoTs
                 ELSE expense.priceHistory[1].changedAt,
   updatedAt |-> IF expense.priceHistory = <<>> THEN NoTs
                 ELSE Last(expense.priceHistory).changedAt]

\* JSON.stringify writes NaN as null
exportedTransaction(tx) ==
  [id |-> JsNum(tx.id),
   amount |-> IF tx.amount.nan THEN JsNull ELSE JsNum(tx.amount.n),
   type |-> tx.type,
   categoryId |-> tx.categoryId,
   pageId |-> tx.pageId,
   occurredOn |-> tx.occurredOn]

exportedProfile(profile) ==
  RawProfile(profile.name, JsNum(profile.monthlyNetIncome),
             ProfileField(profile, "sharedContribution"))

\* the payload of GET /api/export
exportPayload ==
  ImportDocument(
    [i \in 1..Len(fixedExpenses) |-> exportedFixedExpense(fixedExpenses[i])],
    [i \in 1..Len(categories) |->
       [id |-> JsNum(categories[i].id), name |-> categories[i].name]],
    [i \in 1..Len(pages) |-> [id |-> JsNum(pages[i].id), name |-> pages[i].name]],
    [i \in 1..Len(transactions) |-> exportedTransaction(transactions[i])],
    [RawSettings(JsNum(settings.monthlyNetIncome),
                 [i \in 1..Len(settings.ownerProfiles) |->
                    exportedProfile(settings.ownerProfiles[i])],
                 settings.defaultFixedExpensesOwners,
                 settings.bankModeEnabled)
       EXCEPT !.lockEnabled = settings.lockEnabled,
              !.lockSalt = settings.lockSalt,
              !.lockHash = settings.lockHash],
    IF counters.primitive THEN PrimitiveCounters
    ELSE CountersObject(counters.categories, counters.pages,
                        counters.transactions, counters.fixedExpenses),
    TRUE)

\* POST /api/import of what GET /api/export just returned
PostExportedImport ==
  \E imported \in importedFixedExpenses(exportPayload, Now) :
    PostImport(exportPayload, imported)

-----------------------------------------------------------------------------
(* Import and what follows it, as the API drives them: documents with and
   without counters and ids, a document that is no store, an export sent back,
   and creations in every collection *)

RawRecord(id, name) == [id |-> id, name |-> name]

RawTransaction(id, amount, categoryId) ==
  [id |-> id, amount |-> amount, type |-> "expense", categoryId |-> categoryId,
   pageId |-> 0, occurredOn |-> Occurred(1, 5)]

\* one record in every collection, with the ids given or left out
StoreDocument(id, cnt, wellFormed) ==
  ImportDocument(
    <<RawExpense(id, JsNum(100), <<"a">>, <<RawEntry(JsNum(100), DateTs(1))>>,
                 DateTs(1))>>,
    <<RawRecord(id, "Mat")>>, <<RawRecord(id, "Ferie")>>,
    <<RawTransaction(id, JsNum(400), 1)>>,
    RawSettings(JsNum(100), <<>>, <<>>, FALSE), cnt, wellFormed)

StoreDocuments ==
  {StoreDocument(id, cnt, TRUE) :
     id \in {JsUndef, JsNum(1)},
     cnt \in {NoCounters, CountersObject(0, 0, 0, 0), PrimitiveCounters}}
  \cup {StoreDocument(JsNum(1), NoCounters, FALSE),
        ImportDocument(<<>>, <<>>, <<>>, <<>>,
                       RawSettings(JsNum(0), <<>>, <<>>, FALSE), NoCounters, TRUE)}

NextImport ==
  \/ \E doc \in StoreDocuments : \E imported \in importedFixedExpenses(doc, Now) :
       PostImport(doc, imported)
  \/ PostExportedImport
  \/ PostCategory("Bil")
  \/ \E id \in 1..Len(DefaultCategories) : DeleteCategory(id)
  \/ PostPage("Hytte")
  \/ PostTransaction(TransactionBody(JsNum(1000), "income", 0, 0, Occurred(2, 1)))
  \/ PostFixedExpense(ExpenseBody(JsNum(150), <<"b">>, ""))
  \/ \E id \in Ids : DeleteFixedExpense(id)

SpecImport == InitBankMode /\ [][NextImport]_vars

-----------------------------------------------------------------------------
(* GET /api/dashboard as a request, among the requests that fill the store *)

\* GET /api/dashboard: the getters, getSettings() with its writes, then the
\* summary; an exception in the handler is answered 500
GetDashboard ==
  /\ settings' = getSettings
  /\ lastOp' = Op("dashboard", IF monthlyThrows THEN 500 ELSE 200)
  /\ UNCHANGED <<fixedExpenses, categories, pages, transactions, counters,
                 clock, nrm, activeLockTokens, issuedTokens>>

SummaryBodies ==
  {TransactionBody(amount, type, 0, 0, occurredOn) :
     amount \in {JsNum(1000), JsNum(400)},
     type \in {"income", "expense", "transfer"},
     occurredOn \in {Occurred(1, 5), Occurred(2, 1), NullDate}}

SummaryPatches ==
  {DatePatch(NullDate), DatePatch(Occurred(2, 1)), NoDatePatch(JsNum(400))}

SummarySettings ==
  {SettingsBody(JsNum(100), TRUE, <<RawProfile("a", JsNum(300), JsUndef)>>,
                TRUE, defaults, "undef") :
     defaults \in {<<"a", "a">>, <<"b", "a">>, <<>>}}

NextSummary ==
  \/ \E owners \in {<<"a">>, <<"b">>} :
       PostFixedExpense(ExpenseBody(JsNum(100), owners, ""))
  \/ \E body \in SummarySettings : PutSettings(body)
  \/ \E body \in SummaryBodies : PostTransaction(body)
  \/ \E id \in Ids, body \in SummaryPatches : PutTransaction(id, body)
  \/ \E id \in Ids : DeleteTransaction(id)
  \/ GetDashboard

SpecSummary == Init /\ [][NextSummary]_vars

\* a document whose settings name a default owner twice
PureDocument ==
  ImportDocument(
    <<RawExpense(JsNum(1), JsNum(100), <<"a">>,
                 <<RawEntry(JsNum(100), DateTs(1))>>, DateTs(1))>>,
    <<>>, <<>>, <<>>,
    RawSettings(JsNum(100), <<RawProfile("a", JsNum(300), JsUndef)>>,
                <<"b", "b", "a">>, FALSE),
    NoCounters, TRUE)

\* the dashboard between a few requests of each kind
NextPure ==
  \/ PostFixedExpense(ExpenseBody(JsNum(100), <<"a">>, ""))
  \/ \E body \in SummarySettings : PutSettings(body)
  \/ PostTransaction(TransactionBody(JsNum(400), "expense", 0, 0, Occurred(1, 5)))
  \/ \E id \in Ids : PutTransaction(id, DatePatch(NullDate))
  \/ \E imported \in importedFixedExpenses(PureDocument, Now) :
       PostImport(PureDocument, imported)
  \/ GetDashboard

SpecPure == Init /\ [][NextPure]_vars

-----------------------------------------------------------------------------
(* The owner profiles as the API drives them, with names that repeat, that
   carry blanks around them and that are blank *)

RawNames == {"a", " a", "b", "b ", " ", ""}

ProfileLists ==
  {<<RawProfile(first, JsNum(100), JsUndef), RawProfile(second, JsNum(150), JsUndef)>> :
     first \in RawNames, second \in RawNames}

\* a document whose profiles repeat a name, once with a blank in front
ProfileDocument ==
  ImportDocument(
    <<>>, <<>>, <<>>, <<>>,
    RawSettings(JsNum(100),
                <<RawProfile(" a", JsNum(100), JsUndef),
                  RawProfile("a", JsNum(150), JsUndef),
                  RawProfile(" ", JsNum(150), JsUndef),
                  RawProfile("b ", JsNum(150), JsUndef)>>,
                <<>>, FALSE),
    NoCounters, TRUE)

NextProfiles ==
  \/ \E profiles \in ProfileLists :
       PutSettings(SettingsBody(JsUndef, TRUE, profiles, FALSE, <<>>, "undef"))
  \/ \E from \in {"a", " a", "b"}, to \in {"b", "b ", "c", " "} :
       PostRenameOwner(from, to)
  \/ \E name \in {"a", "b ", " "} : PostDeleteOwner(name)
  \/ \E imported \in importedFixedExpenses(ProfileDocument, Now) :
       PostImport(ProfileDocument, imported)

SpecProfiles == Init /\ [][NextProfiles]_vars

-----------------------------------------------------------------------------
(* The ids of the records, with updates whose body carries an id *)

NextIds ==
  \/ PostFixedExpense(ExpenseBody(JsNum(100), <<"a">>, ""))
  \/ \E id \in Ids, newId \in Ids : PutFixedExpense(id, IdPatch(newId))
  \/ \E id \in Ids : DeleteFixedExpense(id)
  \/ \E type \in {"income", "expense"} :
       PostTransaction(TransactionBody(JsNum(400), type, 0, 0, Occurred(1, 5)))
  \/ \E id \in Ids, newId \in Ids : PutTransaction(id, TransactionIdPatch(newId))
  \/ \E id \in Ids : DeleteTransaction(id)
  \/ PostCategory("Mat")
  \/ PostPage("Ferie")

SpecIds == Init /\ [][NextIds]_vars

-----------------------------------------------------------------------------
(* The password lock: server/index.js *)

LOCK_TOKEN_TTL_DAYS == 7

MaxTokens == 2   \* tokens nanoid(32) hands out

\* isLockEnabled()
isLockEnabled ==
  getSettings.lockEnabled /\ getSettings.lockHash # NoHash /\ getSettings.lockSalt # ""

\* verifyLockPassword(password)
verifyLockPassword(password) ==
  /\ password # ""
  /\ settings.lockHash # NoHash /\ settings.lockSalt # ""
  /\ hashLockPassword(password, settings.lockSalt) = settings.lockHash

\* isValidLockToken that does not look at the expiry time
isValidLockTokenIgnoresExpiry(token) ==
  token # 0 /\ token \in DOMAIN activeLockTokens

\* isValidLockToken(token): the result; token 0 is a request without token
isValidLockToken(token) ==
  /\ token # 0
  /\ token \in DOMAIN activeLockTokens
  /\ activeLockTokens[token] >= 0

\* isValidLockToken(token): the Map afterwards; an expired token is deleted
afterTokenCheck(token) ==
  IF token \in DOMAIN activeLockTokens /\ activeLockTokens[token] < 0
  THEN [t \in DOMAIN activeLockTokens \ {token} |-> activeLockTokens[t]]
  ELSE activeLockTokens

\* issueLockToken(res) on the Map tokens: a new token with the full TTL
issueLockToken(tokens) ==
  [t \in DOMAIN tokens \cup {issuedTokens + 1} |->
     IF t = issuedTokens + 1 THEN LOCK_TOKEN_TTL_DAYS ELSE tokens[t]]

\* a day passes: every token has a day less
DayPasses ==
  /\ activeLockTokens' =
       [t \in DOMAIN activeLockTokens |->
          IF activeLockTokens[t] < 0 THEN activeLockTokens[t]
          ELSE activeLockTokens[t] - 1]
  /\ lastOp' = Op("dayPasses", 200)
  /\ UNCHANGED <<fixedExpenses, categories, pages, transactions, settings,
                 counters, clock, nrm, issuedTokens>>

\* the lock middleware in front of a handler of a path under /api that is not
\* under /api/lock
Request(token, handler) ==
  IF isLockEnabled /\ ~isValidLockToken(token)
  THEN /\ lastOp' = Op("locked", 401)
       /\ activeLockTokens' = afterTokenCheck(token)
       /\ UNCHANGED <<fixedExpenses, categories, pages, transactions, settings,
                      counters, clock, nrm, issuedTokens>>
  ELSE handler

\* POST /api/lock/unlock
PostUnlock(password) ==
  /\ issuedTokens < MaxTokens
  /\ IF ~isLockEnabled
     THEN /\ lastOp' = Op("unlock", 400)
          /\ UNCHANGED <<activeLockTokens, issuedTokens>>
     ELSE IF ~verifyLockPassword(password)
     THEN /\ lastOp' = Op("unlock", 401)
          /\ UNCHANGED <<activeLockTokens, issuedTokens>>
     ELSE /\ lastOp' = Op("unlock", 200)
          /\ activeLockTokens' = issueLockToken(activeLockTokens)
          /\ issuedTokens' = issuedTokens + 1
  /\ UNCHANGED <<fixedExpenses, categories, pages, transactions, settings,
                 counters, clock, nrm>>

\* a PUT /api/settings body with lock fields only; lockEnabled is "true",
\* "false" or "undef"
LockBody(hasLockPassword, lockPassword, lockEnabled, lockCurrentPassword) ==
  [hasLockPassword |-> hasLockPassword, lockPassword |-> lockPassword,
   lockEnabled |-> lockEnabled, lockCurrentPassword |-> lockCurrentPassword]

\* updateSettings(update) for an update with lock fields only
updateLockSettings(update) ==
  [getSettings EXCEPT
     !.lockEnabled = IF update.lockEnabled = "undef" THEN @
                     ELSE update.lockEnabled = "true",
     !.lockSalt = IF update.hasLock THEN update.lockSalt
                  ELSE IF update.lockEnabled = "false" THEN "" ELSE @,
     !.lockHash = IF update.hasLock THEN update.lockHash
                  ELSE IF update.lockEnabled = "false" THEN NoHash ELSE @]

\* PUT /api/settings, the lock fields of the body; salt is the value
\* crypto.randomBytes(16) returned
PutLockSettings(body, salt) ==
  LET currentlyLocked == isLockEnabled
      authorized == ~currentlyLocked \/ verifyLockPassword(body.lockCurrentPassword)
      turnsOff == body.lockEnabled = "false"
      update ==
        [lockEnabled |-> IF turnsOff THEN "false"
                         ELSE IF body.hasLockPassword THEN "true"
                         ELSE IF body.lockEnabled = "true" THEN "true" ELSE "undef",
         hasLock |-> body.hasLockPassword \/ turnsOff,
         lockSalt |-> IF turnsOff THEN "" ELSE salt,
         lockHash |-> IF turnsOff THEN NoHash
                      ELSE hashLockPassword(Trim(body.lockPassword), salt)]
      updated == updateLockSettings(update)
      shouldInvalidateLockSessions == body.hasLockPassword \/ turnsOff
      stillLocked ==
        updated.lockEnabled /\ updated.lockHash # NoHash /\ updated.lockSalt # ""
  IN /\ issuedTokens < MaxTokens
     /\ IF body.hasLockPassword /\ Len(Trim(body.lockPassword)) < 6
        THEN /\ lastOp' = Op("putLock", 400)
             /\ UNCHANGED <<settings, activeLockTokens, issuedTokens>>
        ELSE IF (body.hasLockPassword \/ turnsOff) /\ ~authorized
        THEN /\ lastOp' = Op("putLock", 401)
             /\ UNCHANGED <<settings, activeLockTokens, issuedTokens>>
        ELSE IF body.lockEnabled = "true" /\ ~body.hasLockPassword /\ ~currentlyLocked
        THEN /\ lastOp' = Op("putLock", 400)
             /\ UNCHANGED <<settings, activeLockTokens, issuedTokens>>
        ELSE /\ settings' = updated
             /\ lastOp' = Op("putLock", 200)
             /\ IF shouldInvalidateLockSessions
                THEN IF stillLocked
                     THEN /\ activeLockTokens' = issueLockToken(<<>>)
                          /\ issuedTokens' = issuedTokens + 1
                     ELSE /\ activeLockTokens' = <<>>
                          /\ UNCHANGED issuedTokens
                ELSE UNCHANGED <<activeLockTokens, issuedTokens>>
     /\ UNCHANGED <<fixedExpenses, categories, pages, transactions, counters,
                    clock, nrm>>

\* no token, and the tokens the server may have issued
Tokens == 0..MaxTokens

Salts == {"s1"}

\* set or change the password, with or without the current one; a password
\* that is too short; turn the lock off; turn it on without a password
LockBodies ==
  {LockBody(TRUE, "secret1", "undef", ""),
   LockBody(TRUE, "secret2", "undef", "secret1"),
   LockBody(TRUE, "abc", "undef", "secret1"),
   LockBody(FALSE, "", "false", "secret1"),
   LockBody(FALSE, "", "false", "wrong1"),
   LockBody(FALSE, "", "true", "")}

\* bodies that never carry the password 'secret1' as the current one
SessionBodies ==
  {LockBody(TRUE, "secret1", "undef", ""),
   LockBody(TRUE, "secret2", "undef", "wrong1"),
   LockBody(FALSE, "", "false", ""),
   LockBody(FALSE, "", "false", "wrong1"),
   LockBody(FALSE, "", "true", "")}

\* a document without lock fields in its settings, and one carrying a lock
\* of the sender's own making
LockDocuments ==
  {ImportDocument(<<>>, <<>>, <<>>, <<>>, stg, NoCounters, TRUE) :
     stg \in {RawSettings(JsNum(100), <<>>, <<>>, FALSE),
              [RawSettings(JsNum(100), <<>>, <<>>, FALSE) EXCEPT
                 !.lockEnabled = TRUE, !.lockSalt = "s3",
                 !.lockHash = hashLockPassword("other1", "s3")]}}

\* the requests under /api outside /api/lock that carry the given token
ApiRequest(token) ==
  \/ \E body \in LockBodies, salt \in Salts :
       Request(token, PutLockSettings(body, salt))
  \/ Request(token,
             PostTransaction(TransactionBody(JsNum(400), "expense", 0, 0,
                                             Occurred(1, 5))))
  \/ \E doc \in LockDocuments :
       \E imported \in importedFixedExpenses(doc, Now) :
         Request(token, PostImport(doc, imported))

NextLock ==
  \/ \E token \in Tokens : ApiRequest(token)
  \/ \E password \in {"secret1", "wrong1", ""} : PostUnlock(password)
  \/ DayPasses

SpecLock == Init /\ [][NextLock]_vars

\* the same requests from a client that holds tokens but never sends the
\* current password
SessionRequest(token) ==
  \/ \E body \in SessionBodies, salt \in Salts :
       Request(token, PutLockSettings(body, salt))
  \/ Request(token,
             PostTransaction(TransactionBody(JsNum(400), "expense", 0, 0,
                                             Occurred(1, 5))))
  \/ \E doc \in LockDocuments :
       \E imported \in importedFixedExpenses(doc, Now) :
         Request(token, PostImport(doc, imported))

NextSession ==
  \/ \E token \in Tokens : SessionRequest(token)
  \/ \E password \in {"wrong1", ""} : PostUnlock(password)
  \/ DayPasses

SpecSession == Init /\ [][NextSession]_vars

-----------------------------------------------------------------------------
(* Validation as the API drives it: fixed expenses with a level inside and
   outside the enum, amounts that are no numbers, settings with negative and
   non-numeric incomes, and an import document carrying the same values *)

ValidationBodies ==
  {FixedExpenseBody(amount, <<"a">>, "", level, NoTs) :
     amount \in {JsNum(100), JsBad}, level \in {"", "Luksus", "Billig"}}

ValidationPatches ==
  {LevelPatch(level) : level \in {"Luksus", "Billig", ""}}
  \cup {AmountPatch(amount, FALSE) : amount \in {JsNum(150), JsBad}}

ValidationSettings ==
  {SettingsBody(income, FALSE, <<>>, FALSE, <<>>, "undef") :
     income \in {JsNum(100), JsNum(-100), JsBad}}
  \cup {SettingsBody(JsUndef, TRUE, <<RawProfile("a", income, JsUndef)>>,
                     FALSE, <<>>, "undef") :
          income \in {JsNum(100), JsNum(-100), JsBad}}

\* a document with a level outside the enum and negative incomes
ValidationDocument ==
  ImportDocument(
    <<[RawExpense(JsNum(1), JsNum(100), <<"a">>,
                  <<RawEntry(JsNum(100), DateTs(1))>>, DateTs(1))
         EXCEPT !.level = "Billig"]>>,
    <<>>, <<>>, <<>>,
    RawSettings(JsNum(-100), <<RawProfile("a", JsNum(-100), JsUndef)>>, <<>>, FALSE),
    NoCounters, TRUE)

NextValidation ==
  \/ \E body \in ValidationBodies : PostFixedExpense(body)
  \/ \E id \in Ids, payload \in ValidationPatches : PutFixedExpense(id, payload)
  \/ \E id \in Ids : DeleteFixedExpense(id)
  \/ \E body \in ValidationSettings : PutSettings(body)
  \/ \E imported \in importedFixedExpenses(ValidationDocument, Now) :
       PostImport(ValidationDocument, imported)

SpecValidation == Init /\ [][NextValidation]_vars

-----------------------------------------------------------------------------
(* Properties *)

PriceHistories == {fixedExpenses[i].priceHistory : i \in 1..Len(fixedExpenses)}

\* the step is a successful PUT /api/faste-utgifter/:id without a reset flag
\* (or leaves the store as that request left it)
PutWithoutReset ==
  /\ lastOp'.op = "putFixedExpense"
  /\ lastOp'.status = 200
  /\ ~lastOp'.reset

\* C1: every stored fixed expense has a non-empty priceHistory whose last
\* entry carries the expense's current amountPerMonth
C1_LastEntryIsCurrentAmount ==
  \A i \in 1..Len(fixedExpenses) :
    /\ fixedExpenses[i].priceHistory # <<>>
    /\ Last(fixedExpenses[i].priceHistory).amount = fixedExpenses[i].amountPerMonth

\* an import whose synthetic trailing entries left three entries, the last one
\* dated before the one it follows
C1_Witness ==
  /\ lastOp.op = "import"
  /\ \E i \in 1..Len(fixedExpenses) :
       LET h == fixedExpenses[i].priceHistory
       IN /\ Len(h) >= 3
          /\ Last(h).changedAt.t < h[Len(h) - 1].changedAt.t

\* C2: a fixed expense created through the API and only updated or reset since
\* has no two neighbouring priceHistory entries with the same amount
C2_NoEqualNeighbours ==
  \A h \in PriceHistories :
    \A i \in 1..(Len(h) - 1) : h[i].amount # h[i + 1].amount

\* an update repeating the current amount was applied to a history of two entries
C2_Witness ==
  /\ lastOp.op = "putFixedExpense"
  /\ lastOp.status = 200
  /\ lastOp.hasAmount
  /\ ~lastOp.reset
  /\ lastOp.prevLen = 2
  /\ Len(fixedExpenses[lastOp.idx].priceHistory) = 2

\* C3: an update without reset whose patch has no amountPerMonth, or the amount
\* of the last recorded entry, leaves priceHistory as it was
C3_NoOpUpdateKeepsHistory ==
  [][(/\ PutWithoutReset
      /\ \/ ~lastOp'.hasAmount
         \/ lastOp'.amount = Last(fixedExpenses[lastOp'.idx].priceHistory).amount)
     => fixedExpenses'[lastOp'.idx].priceHistory
          = fixedExpenses[lastOp'.idx].priceHistory]_vars

\* an update without an amount went through on an expense with a history
C3_Witness ==
  /\ lastOp.op = "putFixedExpense"
  /\ lastOp.status = 200
  /\ ~lastOp.hasAmount
  /\ ~lastOp.reset
  /\ lastOp.prevLen = 2
  /\ Len(fixedExpenses[lastOp.idx].priceHistory) = lastOp.prevLen

\* C4: an update without reset whose amountPerMonth differs from the last
\* recorded amount writes the old priceHistory followed by one entry
\* {amount: new amount, changedAt: now}
C4_ChangedAmountAppendsOneEntry ==
  [][(/\ PutWithoutReset
      /\ lastOp'.hasAmount
      /\ lastOp'.amount # Last(fixedExpenses[lastOp'.idx].priceHistory).amount)
     => fixedExpenses'[lastOp'.idx].priceHistory
          = Append(fixedExpenses[lastOp'.idx].priceHistory,
                   Entry(lastOp'.amount, Now))]_vars

\* an update grew a history by one entry
C4_Witness ==
  /\ lastOp.op = "putFixedExpense"
  /\ lastOp.status = 200
  /\ lastOp.hasAmount
  /\ ~lastOp.reset
  /\ lastOp.prevLen >= 1
  /\ Len(fixedExpenses[lastOp.idx].priceHistory) = lastOp.prevLen + 1

\* C5: a reset leaves exactly one entry, carrying the expense's amountPerMonth,
\* which the reset does not change
C5_ResetLeavesCurrentAmount ==
  [][(lastOp'.op = "resetPriceHistory" /\ lastOp'.status = 200)
     => /\ Len(fixedExpenses'[lastOp'.idx].priceHistory) = 1
        /\ fixedExpenses'[lastOp'.idx].priceHistory[1].amount
             = fixedExpenses[lastOp'.idx].amountPerMonth
        /\ fixedExpenses'[lastOp'.idx].amountPerMonth
             = fixedExpenses[lastOp'.idx].amountPerMonth]_vars

\* created at 100, updated to 150 (and to 150 again), then reset: one entry of 150
C5_Witness ==
  /\ lastOp.op = "resetPriceHistory"
  /\ lastOp.status = 200
  /\ lastOp.prevLen = 2
  /\ Len(fixedExpenses[lastOp.idx].priceHistory) = 1
  /\ fixedExpenses[lastOp.idx].priceHistory[1].amount = 150

\* an entry of a supplied history with a parseable amount and a parseable timestamp
Parseable(entry) == ~entryAmount(entry).nan /\ entry.changedAt.k = "date"

\* what the claim C6 makes of a supplied record: the parseable entries in
\* chronological order, then the synthetic entry if the amounts disagree
ParseableHistory(raw, now) ==
  LET kept == SelectSeq(raw.priceHistory, Parseable)
      entries == [i \in 1..Len(kept) |->
                    Entry(entryAmount(kept[i]).n, kept[i].changedAt)]
  IN withTrailingEntry(StableSortByDate(entries),
                       NumberOrZero(Coalesce(raw.amountPerMonth, JsNum(0))),
                       OrTs(raw.updatedAt, OrTs(raw.createdAt, now)))

\* C6: normalizeFixedExpense drops every entry without a parseable amount or
\* without a parseable timestamp, orders the rest chronologically and appends
\* the synthetic entry exactly when the last amount is not amountPerMonth
C6_DropsUnparseableEntries ==
  nrm.stage = "done" => nrm.out.priceHistory = ParseableHistory(nrm.raw, Now)

SumShared(profiles) ==
  SumSeq([i \in 1..Len(profiles) |-> profiles[i].sharedContribution.n])

\* the store holds the owner profiles a PUT /api/settings was answered 200 for
ProfilesJustSet ==
  /\ lastOp.op = "putSettings"
  /\ lastOp.status = 200
  /\ lastOp.hasAmount

\* C7: bankModeSummary.totalContribution is the sum of sharedContribution over
\* all owner profiles, whatever the default owner filter is
C7_TotalContributionSumsAllProfiles ==
  ProfilesJustSet => bankModeTotalContribution = SumShared(lastOp.profiles)

\* C8: with bankModeEnabled, activeMonthlyNetIncome is the sum of
\* sharedContribution over every owner profile
C8_BankModeIncomeIsTotalContribution ==
  (ProfilesJustSet /\ bankModeEnabled)
    => activeMonthlyNetIncome = SumShared(lastOp.profiles)

ActiveOwnerSet ==
  {settings.defaultFixedExpensesOwners[i] :
     i \in 1..Len(settings.defaultFixedExpensesOwners)} \ {""}

OwnerSet(expense) == {expense.owners[i] : i \in 1..Len(expense.owners)}

InFilter(expense) ==
  ActiveOwnerSet = {} \/ OwnerSet(expense) \cap ActiveOwnerSet # {}

RECURSIVE SumAmounts(_)
SumAmounts(I) ==
  IF I = {} THEN 0
  ELSE LET i == CHOOSE i \in I : TRUE
       IN fixedExpenses[i].amountPerMonth + SumAmounts(I \ {i})

AllExpenses == 1..Len(fixedExpenses)

FilteredExpenses == {i \in AllExpenses : InFilter(fixedExpenses[i])}

\* C9 as stated: the dashboard field fixedExpenseTotal is the sum over the
\* owner-filtered fixed expenses
C9_FixedExpenseTotalIsFiltered == fixedExpenseTotal = SumAmounts(FilteredExpenses)

\* C9 as amended: fixedExpenseTotal is the sum over all stored fixed expenses;
\* the sum over the owner-filtered ones is the field effectiveFixedExpenseTotal
C9_EffectiveTotalIsFiltered ==
  /\ fixedExpenseTotal = SumAmounts(AllExpenses)
  /\ effectiveFixedExpenseTotal = SumAmounts(FilteredExpenses)

\* the default owner filter excludes a fixed expense that costs something
C9_Witness ==
  /\ ActiveOwnerSet # {}
  /\ \E i \in AllExpenses :
       ~InFilter(fixedExpenses[i]) /\ fixedExpenses[i].amountPerMonth # 0
  /\ fixedExpenseTotal # effectiveFixedExpenseTotal

OwnerFilters == {<<"a">>, <<"b">>, <<"a", "b">>}

SetOf(s) == {s[i] : i \in 1..Len(s)}

\* C10: filtering by a strict superset of owners never lowers the filtered total
C10_SupersetFilterNeverLowersTotal ==
  \A A \in OwnerFilters, B \in OwnerFilters :
    (SetOf(A) \subseteq SetOf(B) /\ SetOf(A) # SetOf(B))
      => totalOf(filteredFixedExpensesFor(B)) >= totalOf(filteredFixedExpensesFor(A))

Listed(expense) ==
  \E i \in 1..Len(bindingExpirations) : bindingExpirations[i].id = expense.id

\* C11: a fixed expense is listed in bindingExpirations exactly if it passes the
\* owner filter and its bindingEndDate lies 0 to 90 days after now; a
\* bindingEndDate already in the past is not listed
C11_ListedIffWithinNinetyDays ==
  \A i \in AllExpenses :
    LET expense == fixedExpenses[i]
    IN Listed(expense) <=>
         /\ InFilter(expense)
         /\ expense.bindingEndDate.k = "date"
         /\ expense.bindingEndDate.t - clock >= 0
         /\ expense.bindingEndDate.t - clock <= BindingWindowDays * DayUnits

\* C19: fixedExpenseLevelTotals has exactly one entry for each of the three
\* levels, with total 0 for a level without filtered fixed expense
C19_AllThreeLevelsPresent ==
  /\ Len(fixedExpenseLevelTotals) = Len(FIXED_EXPENSE_LEVELS)
  /\ \A l \in 1..Len(FIXED_EXPENSE_LEVELS) :
       Cardinality({i \in 1..Len(fixedExpenseLevelTotals) :
                      fixedExpenseLevelTotals[i].key = FIXED_EXPENSE_LEVELS[l]}) = 1

HasProfile(owner) ==
  \E i \in 1..Len(settings.ownerProfiles) : settings.ownerProfiles[i].name = owner

ProfileIncome(owner) ==
  LET i == CHOOSE i \in 1..Len(settings.ownerProfiles) :
             settings.ownerProfiles[i].name = owner
  IN settings.ownerProfiles[i].monthlyNetIncome

RECURSIVE SumIncome(_)
SumIncome(owners) ==
  IF owners = {} THEN 0
  ELSE LET o == CHOOSE o \in owners : TRUE
       IN ProfileIncome(o) + SumIncome(owners \ {o})

\* the active income as C20 states it
ResolvedIncome ==
  IF ActiveOwnerSet # {} /\ \A o \in ActiveOwnerSet : HasProfile(o)
  THEN SumIncome(ActiveOwnerSet)
  ELSE settings.monthlyNetIncome

\* C20: with bank mode off the active income, on the dashboard and on the fixed
\* expenses page, is the summed income of the active owners if there are any and
\* each has a profile, and settings.monthlyNetIncome in every other case
C20_ActiveIncomeFallsBackToGlobal ==
  ~bankModeEnabled =>
    /\ activeMonthlyNetIncome = ResolvedIncome
    /\ activeIncome = ResolvedIncome

Count(s, x) == Cardinality({i \in 1..Len(s) : s[i] = x})

ProfileNames(profiles) ==
  [i \in 1..Len(profiles) |-> profiles[i].name]

\* the step is a POST /api/owners/rename that reached renameOwner
RenameStep == lastOp'.op = "renameOwner" /\ lastOp'.status # 400

\* a list that held 'from' holds 'to' once afterwards, and no list holds 'from'
RenamedIn(before, after, from, to) ==
  /\ Count(after, from) = 0
  /\ Count(before, from) > 0 => Count(after, to) = 1

DeleteOwnerStep == lastOp'.op = "deleteOwner" /\ lastOp'.status # 400

Without(s, x) == SelectSeq(s, LAMBDA o : o # x)

DeleteCategoryStep == lastOp'.op = "deleteCategory"

\* the step is a DELETE /api/pages/:id
DeletePageStep == lastOp'.op = "deletePage"

StrictEq(a, b) == ~a.nan /\ ~b.nan /\ a.n = b.n

\* the sum of the amounts of the stored transactions of one type
RECURSIVE SumOfType(_, _)
SumOfType(type, indices) ==
  IF indices = {} THEN [nan |-> FALSE, n |-> 0]
  ELSE LET i == CHOOSE i \in indices : TRUE
           rest == SumOfType(type, indices \ {i})
       IN IF transactions[i].type = type
          THEN JsAdd(rest, transactions[i].amount)
          ELSE rest

\* the transactions of the scenario: 1000 income on 2024-01-05 and 400 expense
\* on 2024-01-20
Scenario ==
  /\ Len(transactions) = 2
  /\ \E i, j \in 1..2 :
       /\ transactions[i].type = "income"
       /\ transactions[i].amount = [nan |-> FALSE, n |-> 1000]
       /\ transactions[i].occurredOn = Occurred(1, 5)
       /\ transactions[j].type = "expense"
       /\ transactions[j].amount = [nan |-> FALSE, n |-> 400]
       /\ transactions[j].occurredOn = Occurred(1, 20)

\* C18: totalIncome is the sum of the income amounts, totalExpense the sum of
\* the expense amounts and net === totalIncome - totalExpense, whatever is
\* stored; 1000 income and 400 expense in 2024-01 give 1000, 400, 600 and the
\* one monthly entry {2024-01, 1000, 400}
C18_TotalsReconcile ==
  /\ StrictEq(totalIncome, SumOfType("income", 1..Len(transactions)))
  /\ StrictEq(totalExpense, SumOfType("expense", 1..Len(transactions)))
  /\ StrictEq(net, JsSub(totalIncome, totalExpense))
  /\ Scenario =>
       /\ totalIncome.n = 1000 /\ totalExpense.n = 400 /\ net.n = 600
       /\ monthly = <<[period |-> 1,
                       income |-> [nan |-> FALSE, n |-> 1000],
                       expenses |-> [nan |-> FALSE, n |-> 400]]>>

\* C12: sending the export of the store back to the import leaves the
\* dashboard summary as it was
C12_ExportImportKeepsSummary ==
  [][PostExportedImport => dashboardSummary' = dashboardSummary]_vars

\* C13: an import answered 400 leaves the whole store as it was
C13_FailedImportWritesNothing ==
  [][lastOp'.op = "import" /\ lastOp'.status = 400 =>
       UNCHANGED <<fixedExpenses, categories, pages, transactions, settings,
                   counters>>]_vars

HasId(s, id) == \E i \in 1..Len(s) : s[i].id = id

\* C14: a creation answered 201 uses an id no record of its collection had
C14_CreatedIdIsFresh ==
  [][lastOp'.status = 201 =>
       /\ lastOp'.op = "postCategory" => ~HasId(categories, lastOp'.idx)
       /\ lastOp'.op = "postPage" => ~HasId(pages, lastOp'.idx)
       /\ lastOp'.op = "postTransaction" => ~HasId(transactions, lastOp'.idx)
       /\ lastOp'.op = "postFixedExpense" =>
            ~HasId(fixedExpenses, counters'.fixedExpenses)]_vars

\* the active owners without a profile
LackProfile == {o \in ActiveOwnerSet : ~HasProfile(o)}

\* the sum over the active owners in which an owner without profile counts 0
ZeroedIncome ==
  SumIncome({o \in ActiveOwnerSet : HasProfile(o)})

\* C21: when an active owner has no profile, missingIncomeOwners lists exactly
\* the active owners without profile, and the active income reported is not
\* the sum in which they count as 0 (where that sum differs from the global
\* income)
C21_MissingOwnersReportedNotZeroed ==
  (~bankModeEnabled /\ LackProfile # {}) =>
    /\ SetOf(missingIncomeOwners) = LackProfile
    /\ ZeroedIncome # settings.monthlyNetIncome => activeIncome # ZeroedIncome

\* C22: the amount of every stored transaction is a number and is not negative
C22_AmountsAreNonNegativeNumbers ==
  \A i \in 1..Len(transactions) :
    ~transactions[i].amount.nan /\ transactions[i].amount.n >= 0

\* every stored level is one of the three, every stored income is not negative
StoredValuesValid ==
  /\ \A i \in 1..Len(fixedExpenses) :
       Includes(FIXED_EXPENSE_LEVELS, fixedExpenses[i].level)
  /\ settings.monthlyNetIncome >= 0
  /\ \A i \in 1..Len(settings.ownerProfiles) :
       settings.ownerProfiles[i].monthlyNetIncome >= 0

\* the step is a request answered 400
Rejected == lastOp'.status = 400

\* C23: a request answered 400 leaves the whole store as it was, and every
\* stored fixed expense has a level of the enum and every stored income is
\* not negative
C23_OnlyValidValuesStored ==
  /\ [][Rejected => UNCHANGED <<fixedExpenses, categories, pages, transactions,
                                settings, counters>>]_vars
  /\ []StoredValuesValid

\* the step is a GET /api/dashboard
DashboardStep == lastOp'.op = "dashboard"

\* the periods of the monthly series
MonthlyPeriods == {monthly[i].period : i \in 1..Len(monthly)}

\* C24: every GET /api/dashboard is answered with a summary, whatever the
\* API has stored: a transaction whose occurredOn is null is left out of the
\* monthly series, and the request does not fail
C24_DashboardAlwaysCompletes ==
  [][DashboardStep =>
       /\ lastOp'.status = 200
       /\ \A i \in 1..Len(transactions) :
            transactions[i].occurredOn = NullDate
              => Period(transactions[i].occurredOn) \notin MonthlyPeriods']_vars

\* C25: a GET /api/dashboard leaves the collections, the settings and the
\* counters as they were, and a second call on the store it leaves, at the
\* same 'now', returns the same summary
C25_DashboardIsPure ==
  [][DashboardStep =>
       /\ UNCHANGED <<fixedExpenses, categories, pages, transactions, settings,
                      counters>>
       /\ dashboardSummary' = dashboardSummary]_vars

\* a dashboard was answered over a store with a fixed expense, a transaction,
\* a profile and two default owners
C25_Witness ==
  /\ lastOp.op = "dashboard" /\ lastOp.status = 200
  /\ fixedExpenses # <<>> /\ transactions # <<>>
  /\ settings.ownerProfiles # <<>>
  /\ Len(settings.defaultFixedExpensesOwners) = 2

\* the sum of the income column of a monthly series
RECURSIVE MonthlyIncome(_)
MonthlyIncome(series) ==
  IF series = <<>> THEN [nan |-> FALSE, n |-> 0]
  ELSE JsAdd(MonthlyIncome(Tail(series)), Head(series).income)

\* the sum of the expenses column of a monthly series
RECURSIVE MonthlyExpenses(_)
MonthlyExpenses(series) ==
  IF series = <<>> THEN [nan |-> FALSE, n |-> 0]
  ELSE JsAdd(MonthlyExpenses(Tail(series)), Head(series).expenses)

\* C30: whenever the dashboard can be computed, the income column of monthly
\* adds up to totalIncome and the expenses column to totalExpense, and the
\* periods of monthly are strictly ascending
C30_MonthlyReconcilesWithTotals ==
  ~monthlyThrows =>
    /\ StrictEq(MonthlyIncome(monthly), totalIncome)
    /\ StrictEq(MonthlyExpenses(monthly), totalExpense)
    /\ \A i \in 1..Len(monthly) - 1 : monthly[i].period < monthly[i + 1].period

\* C26: the names of the stored owner profiles are pairwise distinct, not
\* empty, and equal to their own trim()
C26_ProfileNamesDistinctAndTrimmed ==
  \A i \in 1..Len(settings.ownerProfiles) :
    /\ settings.ownerProfiles[i].name # ""
    /\ Trim(settings.ownerProfiles[i].name) = settings.ownerProfiles[i].name
    /\ \A j \in 1..Len(settings.ownerProfiles) :
         settings.ownerProfiles[j].name = settings.ownerProfiles[i].name => j = i

\* a PUT /api/settings whose two profiles trim to the same name has stored
\* one profile
C26_Witness ==
  /\ lastOp.op = "putSettings" /\ lastOp.status = 200
  /\ Len(lastOp.profiles) = 2
  /\ lastOp.profiles[1].name = lastOp.profiles[2].name
  /\ Len(settings.ownerProfiles) = 1

\* the ids of the records of a collection are pairwise distinct
DistinctIds(s) == \A i, j \in 1..Len(s) : s[i].id = s[j].id => i = j

\* C27: in each of the four collections the ids of the records are pairwise
\* distinct
C27_IdsAreDistinct ==
  /\ DistinctIds(categories)
  /\ DistinctIds(pages)
  /\ DistinctIds(transactions)
  /\ DistinctIds(fixedExpenses)

\* the lock is on: lockEnabled with a stored hash and salt
LockOn ==
  settings.lockEnabled /\ settings.lockHash # NoHash /\ settings.lockSalt # ""

\* the server holds the token and its seven days are not over
Unexpired(token) ==
  token \in DOMAIN activeLockTokens /\ activeLockTokens[token] >= 0

C29_LockNeedsThePassword ==
  [][LockOn =>
       /\ LockOn'
       /\ settings'.lockHash = settings.lockHash
       /\ settings'.lockSalt = settings.lockSalt]_vars

====
